---- MODULE Spec2Model ----
(***************************************************************************)
(* A model of papyrusplusplus: the option flattener and the command        *)
(* vectors of a Definition (papyruslib/bases.py), the lazily resolved and  *)
(* memoized extensions of a Definition, the registration of the variants, *)
(* the run of main (main.py), the marker synthesis of the spreadsheet      *)
(* source and the two access styles of a DictObject.                       *)
(***************************************************************************)
EXTENDS Integers, Sequences, FiniteSets, TLC

VARIABLES
    fobj,       \* the option structure handed to iterable_to_options
    fdefi,      \* the _data of the Definition whose string_commands is called
    fret,       \* the last call of the flattener part and what it returned
    specs,      \* Spreadsheet.specs, Remote.specs and Webhook.specs: the tags registered
    defis,      \* the Definition objects constructed so far: _data and instance attributes
    insts,      \* the extension instances constructed so far, each with its _parent
    cache,      \* the entries of the functools.cache of the three properties
    uuidctr,    \* the number of uuid4() values drawn and kept so far
    hist,       \* per Definition and capability: what the property's body has done
    effects,    \* the external effects so far, in order
    ncalls,     \* the number of calls made on the objects by their user
    rlast,      \* the last call on the objects and its outcome
    margs,      \* main: the parsed command line (ARGS)
    mfiles,     \* main: the documents of the -f files, in command-line order
    mpc,        \* main: where the run is: the step, the definition, the task
    mrunning,   \* main: whether a renderer process is running
    merr,       \* main: the exception that ended the run, "" when none did
    mlog,       \* main: the warnings and the lines of the steps logged so far
    gimpl,      \* get_playermarkers: the module of the GoogleSheet, helpers or components
    gdims,      \* get_playermarkers: the dimensions of the sheet, in mapping order
    gpc,        \* get_playermarkers: where the call is, and the dimension it is at
    gfetched,   \* get_playermarkers: what _fetch_ranges gave, per dimension so far
    gmarkers,   \* get_playermarkers: the markers list
    gerr,       \* get_playermarkers: the exception that ended the call, "" when none did
    pms,        \* the PlayerMarker objects made so far, each its _data
    pobs,       \* per PlayerMarker: which call gave it its uuid and its colour
    pcalls,     \* the number of calls made on the PlayerMarker objects
    odata,      \* a DictObject: its _data, the backing store
    oattrs,     \* the DictObject: its other instance attributes
    olast,      \* the last access of the DictObject, the object before it, its outcome
    ocalls      \* the number of accesses of the DictObject

fvars == <<fobj, fdefi, fret>>
hvars == <<specs, defis, insts, cache, uuidctr, hist, effects>>
rvars == <<ncalls, rlast>>
mvars == <<margs, mfiles, mpc, mrunning, merr, mlog>>
gvars == <<gimpl, gdims, gpc, gfetched, gmarkers, gerr>>
pvars == <<pms, pobs, pcalls>>
ovars == <<odata, oattrs, olast, ocalls>>
kvars == <<gimpl, gdims, gpc, gfetched, gmarkers, gerr, pms, pobs, pcalls,
           odata, oattrs, olast, ocalls>>
vars == <<fobj, fdefi, fret, specs, defis, insts, cache, uuidctr, hist, effects,
          ncalls, rlast, margs, mfiles, mpc, mrunning, merr, mlog,
          gimpl, gdims, gpc, gfetched, gmarkers, gerr, pms, pobs, pcalls,
          odata, oattrs, olast, ocalls>>

(***************************************************************************)
(* Python values.  A value keeps its type: 0, False and "" are three       *)
(* different values, and 1 == True while 1 is not True.                    *)
(***************************************************************************)
PyNone == [t |-> "NoneType", n |-> 0, s |-> ""]
PyBool(b) == [t |-> "bool", n |-> IF b THEN 1 ELSE 0, s |-> ""]
PyInt(i) == [t |-> "int", n |-> i, s |-> ""]
PyStr(x) == [t |-> "str", n |-> 0, s |-> x]

\* pathlib.Path(x): a path object, not a str
PyPath(x) == [t |-> "PosixPath", n |-> 0, s |-> x]

\* a is b, for the singletons None, False and True
PyIs(a, b) == a.t = b.t /\ a.n = b.n /\ a.s = b.s

\* a == b: bool is a subclass of int, so 0 == False and 1 == True
PyEq(a, b) ==
    IF a.t \in {"bool", "int"} /\ b.t \in {"bool", "int"} THEN a.n = b.n
    ELSE a.t = b.t /\ a.s = b.s

DecimalDigits == <<"0", "1", "2", "3", "4", "5", "6", "7", "8", "9">>

RECURSIVE NatStr(_)
NatStr(i) ==
    IF i < 10 THEN DecimalDigits[i + 1]
    ELSE NatStr(i \div 10) \o DecimalDigits[(i % 10) + 1]

\* str(v)
PyStrOf(v) ==
    CASE v.t = "NoneType" -> "None"
      [] v.t = "bool" -> IF v.n = 1 THEN "True" ELSE "False"
      [] v.t = "int" -> IF v.n < 0 THEN "-" \o NatStr(0 - v.n) ELSE NatStr(v.n)
      [] OTHER -> v.s

\* what a call gives back: a value, or the exception it raised
Returned(v) == [exc |-> "none", val |-> v]
Raised(e) == [exc |-> e, val |-> <<>>]
\* the same for a call that returns an object (its index) or None (0)
Threw(e) == [exc |-> e, val |-> 0]

(***************************************************************************)
(* Option structures: an ordered mapping is the sequence of its (key,      *)
(* value) items in mapping order, a list the sequence of its elements.     *)
(***************************************************************************)
PyDict(items) == [kind |-> "dict", items |-> items]
PyList(items) == [kind |-> "list", items |-> items]

\* any(v is c for c in [None, False, True])
IsFlagValueEq(v) == \E c \in {PyNone, PyBool(FALSE), PyBool(TRUE)} : PyEq(v, c)

IsFlagValue(v) == \E c \in {PyNone, PyBool(FALSE), PyBool(TRUE)} : PyIs(v, c)

\* the loop over obj.items() of iterable_to_options
RECURSIVE MappingOptions(_)
MappingOptions(items) ==
    IF items = <<>> THEN <<>>
    ELSE LET k == Head(items).k
             v == Head(items).v
             olist == <<PyStrOf(k)>>
         IN (IF ~IsFlagValue(v) THEN Append(olist, PyStrOf(v)) ELSE olist)
                \o MappingOptions(Tail(items))

\* a value that is neither a mapping nor a list, as an option structure
PyScalar(v) == [kind |-> "scalar", items |-> <<v>>]

\* the characters of the str x, each a str
Characters(x) == [i \in 1..Len(x) |-> PyStr(SubSeq(x, i, i))]

\* `for v in obj` of an obj that is no mapping: a list gives its elements, a
\* str its characters, and a value that is not iterable raises TypeError
PyIter(obj) ==
    IF obj.kind = "list" THEN Returned(obj.items)
    ELSE IF obj.items[1].t = "str" THEN Returned(Characters(obj.items[1].s))
    ELSE Raised("TypeError")

iterable_to_options(obj) ==
    IF obj.kind = "dict" THEN Returned(MappingOptions(obj.items))
    ELSE LET it == PyIter(obj)
         IN IF it.exc # "none" THEN it
            ELSE Returned([i \in 1..Len(it.val) |-> PyStrOf(it.val[i])])

\* Definition.world and Definition.dest
world(data) == PyPath(data["world"])
dest(data) == PyPath(data["dest"])

\* self.get(key, default)
DictGet(data, key, default) == IF key \in DOMAIN data THEN data[key] ELSE default

\* the mutation a shared, growing `start` list would give: vector i also
\* carries the options of the tasks before it
string_commands_shared(data) ==
    LET start == <<"--world", world(data), "--output", dest(data)>>
                    \o iterable_to_options(DictGet(data, "defaultoptions", PyDict(<<>>))).val
        RECURSIVE upto(_)
        upto(i) == IF i = 0 THEN start
                   ELSE upto(i - 1) \o iterable_to_options(data["tasks"][i]).val
    IN IF "tasks" \notin DOMAIN data THEN Raised("KeyError")
       ELSE Returned([i \in 1..Len(data["tasks"]) |-> upto(i)])

string_commands(data) ==
    LET start == <<"--world", world(data), "--output", dest(data)>>
                    \o iterable_to_options(DictGet(data, "defaultoptions", PyDict(<<>>))).val
    IN IF "tasks" \notin DOMAIN data THEN Raised("KeyError")
       ELSE Returned([i \in 1..Len(data["tasks"]) |->
                         start \o iterable_to_options(data["tasks"][i]).val])

(***************************************************************************)
(* The inputs of the flattener part.                                       *)
(***************************************************************************)
MaxOptLen == 2
MaxTasks == 2

OptionKeys == {PyStr("--a"), PyStr("-b"), PyInt(7)}
OptionValues == {PyNone, PyBool(TRUE), PyBool(FALSE), PyInt(0), PyInt(1),
                 PyInt(16), PyStr(""), PyStr("x")}

SeqsUpTo(S, n) == UNION {[1..m -> S] : m \in 0..n}

\* keys are unique in a mapping
Mappings(n) ==
    {PyDict(items) : items \in
        {q \in SeqsUpTo([k : OptionKeys, v : OptionValues], n) :
            \A i, j \in 1..Len(q) : i # j => q[i].k # q[j].k}}
Lists(n) == {PyList(items) : items \in SeqsUpTo(OptionValues, n)}
OptionStructures == Mappings(MaxOptLen) \cup Lists(MaxOptLen)

\* what is neither a mapping nor a list: None, a bool, a number, a str
Scalars == {PyScalar(v) : v \in OptionValues \cup {PyStr("-b")}}

\* the option structures the Definitions of the model are made of
TaskOptions ==
    { PyDict(<<>>),
      PyDict(<<[k |-> PyStr("--a"), v |-> PyBool(TRUE)]>>),
      PyDict(<<[k |-> PyStr("--a"), v |-> PyInt(1)], [k |-> PyStr("-b"), v |-> PyNone]>>),
      PyDict(<<[k |-> PyStr("-b"), v |-> PyStr("x")]>>),
      PyList(<<PyStr("-b"), PyInt(0)>>),
      PyList(<<PyStr("--a")>>) }

Worlds == {"w1", "w2"}
Dests == {"d1"}

\* the document b with one more key
WithKey(b, key, val) == [x \in DOMAIN b \cup {key} |-> IF x = key THEN val ELSE b[x]]

DefinitionData ==
    LET base == [{"world", "dest"} -> Worlds \cup Dests]
        req == {b \in base : b["world"] \in Worlds /\ b["dest"] \in Dests}
        wdef == req \cup {WithKey(b, "defaultoptions", o) : b \in req, o \in TaskOptions}
    IN wdef \cup {WithKey(b, "tasks", ts) : b \in wdef, ts \in SeqsUpTo(TaskOptions, MaxTasks)}

(***************************************************************************)
(* Definitions and their extensions.  The _data of a Definition is a       *)
(* function of the keys its document has; a block that is absent is a key  *)
(* that is missing.                                                        *)
(***************************************************************************)
Caps == {"spreadsheet", "remote", "webhook"}
CapOrder == <<"spreadsheet", "remote", "webhook">>

\* the tables once the helpers are imported
SpecsAtImport ==
    [c \in Caps |-> CASE c = "spreadsheet" -> {"gsheet"}
                      [] c = "remote" -> {"rsync"}
                      [] OTHER -> {"discord"}]

\* a tagged block; key says whether data.get("key", os.environ.get("GOOGLEAPIKEY"))
\* is there
Block(type, key) == [type |-> type, key |-> key]

\* int(uuid4()): a value never drawn before
uuid4(ctr) == ctr + 1

\* DictObject.__init__
DictObject__init__(data, ctr) ==
    [data |-> data, attrs |-> [a \in {"_hash"} |-> uuid4(ctr)]]

\* a __hash__ that finds no _hash attribute: a new value at every call
DictObject__hash__unset(obj, ctr) == uuid4(ctr)

\* DictObject.__hash__: getattr(self, "_hash", int(uuid4()))
DictObject__hash__(obj, ctr) ==
    IF "_hash" \in DOMAIN obj.attrs THEN obj.attrs["_hash"] ELSE uuid4(ctr)

\* DictObject.__eq__ of two DictObjects
DictObject__eq__(a, b) == a.data = b.data

\* bool(obj) of a DictObject: it has __len__
DictObject__bool__(obj) == DOMAIN obj.data # {}

Heap == [specs |-> specs, defis |-> defis, insts |-> insts, cache |-> cache,
         uuidctr |-> uuidctr, hist |-> hist, effects |-> effects]

SetHeap(h) ==
    /\ specs' = h.specs
    /\ defis' = h.defis
    /\ insts' = h.insts
    /\ cache' = h.cache
    /\ uuidctr' = h.uuidctr
    /\ hist' = h.hist
    /\ effects' = h.effects

\* runs: the constructions started (registry lookup, then constructor);
\* built: those that completed; gets: the accesses that returned; returns:
\* what they returned; late: the runs of the property's body after an access
\* had returned
NoHist == [runs |-> 0, built |-> 0, gets |-> 0, returns |-> {}, late |-> 0]

\* Definition(data), Definition.from_yaml(text): DictObject.__init__ and
\* nothing else
NewDefinition(h, data) ==
    [h EXCEPT !.defis = Append(@, DictObject__init__(data, h.uuidctr)),
              !.uuidctr = uuid4(@),
              !.hist = Append(@, [c \in Caps |-> NoHist])]

\* one specs table for the three capabilities, held by their common base
SpecsOf_base(cap) == "spreadsheet"

\* cls.specs: Spreadsheet, Remote and Webhook each bind a dict of their own
\* in their class body
SpecsOf(cap) == cap

\* the tags `data["type"] in cls.specs` finds for the capability
Registered(h, cap) == h.specs[SpecsOf(cap)]

\* Spreadsheet.specs[tag] = ..., Remote.specs[tag] = ..., Webhook.specs[tag] = ...
Register(h, cap, tag) == [h EXCEPT !.specs[SpecsOf(cap)] = @ \cup {tag}]

\* cls.__new__ and the variant's __init__: the registry lookup, then the
\* constructor (GoogleSheet's asks for the API key before it builds the service)
Construct(h, d, cap) ==
    LET block == h.defis[d].data[cap]
    IN IF block.type \notin Registered(h, cap) THEN Raised("Cannot find type")
       ELSE IF block.type = "gsheet" /\ ~block.key THEN Raised("No Google Sheets key found")
       ELSE Returned(<<[cap |-> cap, variant |-> block.type, parent |-> d]>>)

\* the body of the spreadsheet / remote / webhook property: the instance
\* made, in a sequence of its own, or nothing for None
PropertyBody(h, d, cap) ==
    IF cap \notin DOMAIN h.defis[d].data THEN Returned(<<>>)
    ELSE Construct(h, d, cap)

\* the cache entries a call of the property on Definition d hits: the key is
\* found by its hash, then by identity or __eq__
CacheHits(h, d, cap, hashv) ==
    {e \in h.cache :
        /\ e.cap = cap
        /\ e.hashv = hashv
        /\ (e.key = d \/ DictObject__eq__(h.defis[e.key], h.defis[d]))}

\* defi.spreadsheet, defi.remote, defi.webhook: @property over @cache.
\* Gives the heap after the access and what the access returned (an instance
\* is the index it has in insts, None is 0).
PropertyGet(h, d, cap) ==
    LET hashv == DictObject__hash__(h.defis[d], h.uuidctr)
        h1 == IF hashv = uuid4(h.uuidctr) THEN [h EXCEPT !.uuidctr = uuid4(@)] ELSE h
        hits == CacheHits(h1, d, cap, hashv)
        was == h1.hist[d][cap]
    IN IF hits # {}
       THEN LET val == (CHOOSE e \in hits : TRUE).val
            IN [heap |-> [h1 EXCEPT !.hist[d][cap].returns = @ \cup {val},
                                    !.hist[d][cap].gets = @ + 1],
                res |-> Returned(val)]
       ELSE LET out == PropertyBody(h1, d, cap)
                ran == [was EXCEPT !.runs = IF cap \in DOMAIN h1.defis[d].data THEN @ + 1 ELSE @,
                                   !.late = IF was.returns # {} THEN @ + 1 ELSE @]
            IN IF out.exc # "none"
               THEN [heap |-> [h1 EXCEPT !.hist[d][cap] = ran], res |-> Threw(out.exc)]
               ELSE LET made == out.val # <<>>
                        h2 == IF made THEN [h1 EXCEPT !.insts = @ \o out.val] ELSE h1
                        val == IF made THEN Len(h2.insts) ELSE 0
                    IN [heap |-> [h2 EXCEPT
                                    !.cache = @ \cup {[cap |-> cap, hashv |-> hashv,
                                                       key |-> d, val |-> val]},
                                    !.hist[d][cap] =
                                        [ran EXCEPT !.built = IF made THEN @ + 1 ELSE @,
                                                    !.gets = @ + 1,
                                                    !.returns = @ \cup {val}]],
                        res |-> Returned(val)]

\* Definition._cache_all: self.spreadsheet, self.remote, self.webhook, in
\* this order, up to the first that raises
RECURSIVE CacheFrom(_, _, _)
CacheFrom(h, d, i) ==
    IF i > Len(CapOrder) THEN [heap |-> h, res |-> Returned(0)]
    ELSE LET got == PropertyGet(h, d, CapOrder[i])
         IN IF got.res.exc # "none" THEN got ELSE CacheFrom(got.heap, d, i + 1)

\* a _cache_all that touches no property: nothing is resolved ahead
_cache_all_nothing(h, d) == [heap |-> h, res |-> Returned(0)]

_cache_all(h, d) == CacheFrom(h, d, 1)

\* an external effect: a process started or ended, a file written, a request
\* sent; defi is the Definition it works on
Effect(op, defi) == [op |-> op, defi |-> defi, task |-> 0, argv |-> <<>>, rc |-> 0]

\* defi = self._parent or defi: the Definition an operation of an extension
\* works on, 0 when there is none (the assert fails)
ContextOf(h, inst, defi) ==
    LET parent == h.insts[inst].parent
    IN IF parent # 0 /\ DictObject__bool__(h.defis[parent]) THEN parent ELSE defi

\* GoogleSheet.get_playermarkers(defi): the context it asserts; fails says
\* that the fetch of the ranges raises
get_playermarkers_context(h, inst, defi, fails) ==
    LET ctx == ContextOf(h, inst, defi)
    IN IF ctx = 0 THEN Threw("AssertionError")
       ELSE IF fails THEN Threw("HttpError")
       ELSE Returned(ctx)

\* Spreadsheet.write_playermarkers(defi): get_playermarkers() is called
\* without the context, then the file is written under the context's dest
write_playermarkers(h, inst, defi, fails) ==
    LET ctx == ContextOf(h, inst, defi)
        inner == get_playermarkers_context(h, inst, 0, fails)
    IN IF ctx = 0 THEN [heap |-> h, res |-> Threw("AssertionError")]
       ELSE IF inner.exc # "none" THEN [heap |-> h, res |-> inner]
       ELSE [heap |-> [h EXCEPT !.effects = Append(@, Effect("write_playermarkers", ctx))],
             res |-> Returned(ctx)]

\* an upload that does not look at the exit status of rsync
upload_ignoring_status(h, inst, defi, rc) ==
    LET ctx == ContextOf(h, inst, defi)
    IN IF ctx = 0 THEN [heap |-> h, res |-> Threw("AssertionError")]
       ELSE [heap |-> [h EXCEPT !.effects = Append(@, [Effect("upload", ctx) EXCEPT !.rc = rc])],
             res |-> Returned(ctx)]

\* RsyncRemote.upload(defi); rc is the exit status of rsync
upload(h, inst, defi, rc) ==
    LET ctx == ContextOf(h, inst, defi)
        h1 == [h EXCEPT !.effects = Append(@, [Effect("upload", ctx) EXCEPT !.rc = rc])]
    IN IF ctx = 0 THEN [heap |-> h, res |-> Threw("AssertionError")]
       ELSE IF rc # 0 THEN [heap |-> h1, res |-> Threw("Rsync command failed")]
       ELSE [heap |-> h1, res |-> Returned(ctx)]

\* RsyncRemote.upload_playersdata(defi)
upload_playersdata(h, inst, defi, rc) ==
    LET ctx == ContextOf(h, inst, defi)
        h1 == [h EXCEPT !.effects = Append(@, [Effect("upload_playersdata", ctx) EXCEPT !.rc = rc])]
    IN IF ctx = 0 THEN [heap |-> h, res |-> Threw("AssertionError")]
       ELSE IF rc # 0 THEN [heap |-> h1, res |-> Threw("Rsync command failed")]
       ELSE [heap |-> h1, res |-> Returned(ctx)]

\* DiscordWebhook.push(), as main calls it: the request is posted for the
\* owning Definition; ok says that the response status is 2xx
push(h, inst, ok) ==
    LET ctx == h.insts[inst].parent
        h1 == [h EXCEPT !.effects = Append(@, Effect("push", ctx))]
    IN IF ok THEN [heap |-> h1, res |-> Returned(ctx)]
       ELSE [heap |-> h1, res |-> Threw("HTTPError")]

(***************************************************************************)
(* PlayerMarker (bases.py).  A marker is its _data.  The uuid and the md5  *)
(* hex digests are written a character per element: the hex digits are     *)
(* 0..15 and Dash is the hyphen of the uuid's string form.                 *)
(***************************************************************************)
Dash == 16

\* numberValue of a cell: an int, or a float given in halves (PyHalves(21)
\* is 10.5)
PyHalves(h) == [t |-> "float", n |-> h, s |-> ""]

PyTuple(items) == [kind |-> "tuple", items |-> items]

\* bool(v) of a name: None and "" are false
Truthy(v) ==
    CASE v.t = "NoneType" -> FALSE
      [] v.t \in {"bool", "int", "float"} -> v.n # 0
      [] OTHER -> v.s # ""

DEFAULT_COLORS ==
    << "#0000AA", "#00AA00", "#00AAAA", "#AA0000", "#AA00AA", "#FFAA00",
       "#5555FF", "#55FF55", "#55FFFF", "#FF5555", "#FF55FF", "#FFFF55" >>

\* md5(x.encode("utf-8")).hexdigest() of the names of the model: the real
\* digests, a hex digit per element
md5_text(x) ==
    CASE x = "Steve" ->
        <<8, 1, 11, 8, 10, 1, 11, 7, 7, 0, 6, 8, 13, 0, 6, 14,
          1, 12, 8, 1, 9, 0, 8, 2, 5, 2, 5, 3, 0, 6, 6, 15>>
      [] x = "Spawn" ->
        <<4, 15, 13, 1, 13, 13, 13, 11, 13, 7, 8, 15, 7, 15, 7, 12,
          13, 12, 13, 6, 2, 14, 9, 2, 6, 2, 6, 6, 6, 1, 1, 14>>
      [] x = "???" ->
        <<0, 13, 1, 11, 0, 8, 12, 3, 4, 8, 5, 8, 9, 2, 1, 11,
          12, 7, 12, 6, 6, 2, 11, 2, 2, 8, 10, 12, 11, 7, 11, 10>>

\* the values uuid4() gives in the model, as str() writes them:
\* 3f2b8c1e-7a4d-4e59-9b06-5d1c2a7e8f40 and c09a61d2-0b7e-4f83-a5c4-e6d3920b1f57
Uuid4A ==
    <<3, 15, 2, 11, 8, 12, 1, 14, 16, 7, 10, 4, 13, 16, 4, 14, 5, 9,
      16, 9, 11, 0, 6, 16, 5, 13, 1, 12, 2, 10, 7, 14, 8, 15, 4, 0>>
Uuid4B ==
    <<12, 0, 9, 10, 6, 1, 13, 2, 16, 0, 11, 7, 14, 16, 4, 15, 8, 3,
      16, 10, 5, 12, 4, 16, 14, 6, 13, 3, 9, 2, 0, 11, 1, 15, 5, 7>>
Uuid4Values == {Uuid4A, Uuid4B}

\* md5(u.encode("utf-8")).hexdigest() of the uuid strings a marker of the
\* model can hold when its name is empty: the real digests
Md5OfUuid ==
    { <<<<3, 15, 2, 11, 8, 12, 1, 14, 16, 7, 10, 4, 13, 16, 4, 14, 5, 9,
          16, 9, 11, 0, 6, 16, 5, 13, 1, 12, 2, 10, 7, 14, 8, 15, 4, 0>>,
        <<11, 3, 12, 6, 7, 1, 1, 0, 2, 3, 0, 12, 12, 13, 10, 7,
          13, 5, 6, 8, 8, 13, 14, 9, 11, 14, 6, 6, 10, 14, 12, 13>>>>,
      <<<<11, 3, 12, 6, 7, 1, 1, 0, 16, 2, 3, 0, 12, 16, 12, 13, 10, 7,
          16, 13, 5, 6, 8, 16, 8, 13, 14, 9, 11, 14, 6, 6, 10, 14, 12, 13>>,
        <<10, 7, 3, 5, 1, 10, 0, 5, 14, 6, 4, 4, 4, 14, 0, 8,
          3, 14, 5, 10, 9, 9, 12, 8, 4, 1, 13, 3, 13, 1, 3, 12>>>>,
      <<<<12, 0, 9, 10, 6, 1, 13, 2, 16, 0, 11, 7, 14, 16, 4, 15, 8, 3,
          16, 10, 5, 12, 4, 16, 14, 6, 13, 3, 9, 2, 0, 11, 1, 15, 5, 7>>,
        <<0, 10, 4, 13, 0, 14, 12, 15, 10, 2, 7, 7, 14, 12, 4, 12,
          5, 0, 8, 11, 1, 4, 10, 8, 14, 2, 12, 2, 9, 4, 3, 0>>>>,
      <<<<0, 10, 4, 13, 0, 14, 12, 15, 16, 10, 2, 7, 7, 16, 14, 12, 4, 12,
          16, 5, 0, 8, 11, 16, 1, 4, 10, 8, 14, 2, 12, 2, 9, 4, 3, 0>>,
        <<2, 12, 0, 4, 2, 2, 6, 14, 2, 15, 0, 7, 9, 5, 3, 9,
          6, 3, 8, 15, 2, 8, 4, 7, 8, 1, 0, 14, 3, 8, 1, 0>>>>,
      <<<<8, 1, 11, 8, 10, 1, 11, 7, 16, 7, 0, 6, 8, 16, 13, 0, 6, 14,
          16, 1, 12, 8, 1, 16, 9, 0, 8, 2, 5, 2, 5, 3, 0, 6, 6, 15>>,
        <<7, 3, 8, 1, 4, 0, 1, 0, 9, 8, 12, 5, 0, 15, 7, 13,
          5, 4, 9, 14, 4, 4, 14, 5, 9, 1, 8, 12, 5, 6, 3, 2>>>>,
      <<<<4, 15, 13, 1, 13, 13, 13, 11, 16, 13, 7, 8, 15, 16, 7, 15, 7, 12,
          16, 13, 12, 13, 6, 16, 2, 14, 9, 2, 6, 2, 6, 6, 6, 1, 1, 14>>,
        <<3, 8, 3, 10, 8, 3, 15, 5, 3, 2, 1, 10, 4, 6, 9, 2,
          3, 4, 14, 9, 7, 6, 10, 10, 3, 8, 13, 11, 4, 14, 6, 10>>>>,
      <<<<0, 13, 1, 11, 0, 8, 12, 3, 16, 4, 8, 5, 8, 16, 9, 2, 1, 11,
          16, 12, 7, 12, 6, 16, 6, 2, 11, 2, 2, 8, 10, 12, 11, 7, 11, 10>>,
        <<0, 1, 9, 10, 0, 15, 2, 7, 9, 13, 15, 3, 9, 14, 14, 13,
          4, 2, 11, 6, 14, 3, 5, 11, 9, 5, 3, 10, 11, 3, 1, 2>>>> }

Tabulated(u) == \E p \in Md5OfUuid : p[1] = u
md5_chars(u) == (CHOOSE p \in Md5OfUuid : p[1] = u)[2]

\* PlayerMarker(): the default _data, its uuid the str of a fresh uuid4()
PlayerMarker__init__(u) ==
    [uuid |-> u, name |-> PyNone, dimensionId |-> 0,
     position |-> PyTuple(<<PyInt(0), PyInt(0), PyInt(0)>>),
     color |-> PyStr("#ffffff"), visible |-> TRUE]

\* the mutation of _hash that prefers the uuid to the name
_hash_of_uuid(m) ==
    IF Tabulated(m.uuid) THEN md5_chars(m.uuid) ELSE md5_text(m.name.s)

\* PlayerMarker._hash: the md5 hex digest of (self.name or self.uuid)
_hash(m) ==
    IF Truthy(m.name) THEN md5_text(m.name.s) ELSE md5_chars(m.uuid)

\* whether the model has the digest _hash needs
Hashable(m) == Truthy(m.name) \/ Tabulated(m.uuid)

\* int(h[1..i], 16) % m, by Horner's rule
RECURSIVE IntOfHexMod(_, _, _)
IntOfHexMod(h, i, m) ==
    IF i = 0 THEN 0 ELSE (IntOfHexMod(h, i - 1, m) * 16 + h[i]) % m

\* str(UUID(h)): the 32 hex digits in groups of 8, 4, 4, 4 and 12
UUIDStr(h) ==
    SubSeq(h, 1, 8) \o <<Dash>> \o SubSeq(h, 9, 12) \o <<Dash>> \o SubSeq(h, 13, 16)
        \o <<Dash>> \o SubSeq(h, 17, 20) \o <<Dash>> \o SubSeq(h, 21, 32)

\* the mutation of set_color that always derives the colour
set_color_derived(m, color) ==
    [m EXCEPT !.color =
        LET h == _hash(m)
        IN PyStr(DEFAULT_COLORS[IntOfHexMod(h, Len(h), Len(DEFAULT_COLORS)) + 1])]

\* PlayerMarker.set_color(color)
set_color(m, color) ==
    [m EXCEPT !.color =
        IF PyIs(color, PyNone)
        THEN LET h == _hash(m)
             IN PyStr(DEFAULT_COLORS[IntOfHexMod(h, Len(h), Len(DEFAULT_COLORS)) + 1])
        ELSE color]

\* PlayerMarker.set_uuid_from_name()
set_uuid_from_name(m) == [m EXCEPT !.uuid = UUIDStr(_hash(m))]

(***************************************************************************)
(* The spreadsheet source (helpers/gsheets.py and components/gsheets.py).  *)
(* A JSON object of the fetched grid data is a function from its keys; a   *)
(* colour channel is given in halves (2 is 1.0, 1 is 0.5).                 *)
(***************************************************************************)
EmptyDict == [k \in {} |-> 0]

\* components/gsheets.py: centre_blocks
centre_blocks(i) == IF i.t \in {"int", "bool"} THEN PyHalves(2 * i.n + 1) ELSE i

\* helpers/gsheets.py: form_location
form_location_helpers(values) ==
    IF Len(values) # 3 THEN Raised("ValueError")
    ELSE LET x == values[1]
             y == values[2]
             z == values[3]
             has(c) == "effectiveValue" \in DOMAIN c
                       /\ "numberValue" \in DOMAIN c["effectiveValue"]
         IN IF ~has(x) \/ ~has(z) THEN Raised("KeyError")
            ELSE Returned(PyList(<<x["effectiveValue"]["numberValue"],
                                   DictGet(DictGet(y, "effectiveValue", EmptyDict),
                                           "numberValue", PyInt(0)),
                                   z["effectiveValue"]["numberValue"]>>))

\* components/gsheets.py: form_location
form_location(values) ==
    IF Len(values) # 3 THEN Raised("ValueError")
    ELSE LET x == values[1]
             y == values[2]
             z == values[3]
             xval == DictGet(DictGet(x, "effectiveValue", EmptyDict), "numberValue", PyNone)
             yval == DictGet(DictGet(y, "effectiveValue", EmptyDict), "numberValue", PyInt(0))
             zval == DictGet(DictGet(z, "effectiveValue", EmptyDict), "numberValue", PyNone)
         IN IF PyIs(xval, PyNone) THEN Raised("ValueError")
            ELSE IF PyIs(zval, PyNone) THEN Raised("ValueError")
            ELSE Returned(PyTuple(<<centre_blocks(xval), yval, centre_blocks(zval)>>))

HexDigits ==
    <<"0", "1", "2", "3", "4", "5", "6", "7", "8", "9", "a", "b", "c", "d", "e", "f">>

\* "{:02x}".format(int(v * 255)) of a channel v given in halves
HexOfChannel(halves) ==
    LET n == (halves * 255) \div 2
    IN HexDigits[(n \div 16) + 1] \o HexDigits[(n % 16) + 1]

\* hexify: {red: 1, green: 0.5} -> #ff7f00
hexify(d) ==
    PyStr("#" \o HexOfChannel(DictGet(d, "red", 0)) \o HexOfChannel(DictGet(d, "green", 0))
              \o HexOfChannel(DictGet(d, "blue", 0)))

\* get_colour (both modules): the text's foreground colour, None when a key
\* of the path is missing
get_colour(d) ==
    LET tf == DictGet(DictGet(d, "userEnteredFormat", EmptyDict), "textFormat", EmptyDict)
    IN IF "foregroundColor" \in DOMAIN tf THEN hexify(tf["foregroundColor"]) ELSE PyNone

\* formattedValue.strip() of the texts of the model
strip(text) == IF text \in {"", " "} THEN "" ELSE text

\* ...["rowData"] in helpers, .get("rowData", []) in components
RowData(impl, set) ==
    IF "rowData" \in DOMAIN set THEN Returned(set["rowData"])
    ELSE IF impl = "helpers" THEN Raised("KeyError")
    ELSE Returned(<<>>)

\* o.get("values", [{}])[0].get("formattedValue", "???")
NameOf(o) == PyStr(DictGet(DictGet(o, "values", <<EmptyDict>>)[1], "formattedValue", "???"))

\* form_location(r["values"]) if "values" in r else None
PositionOf(impl, r) ==
    IF "values" \notin DOMAIN r THEN Returned(PyNone)
    ELSE IF impl = "helpers" THEN form_location_helpers(r["values"])
    ELSE form_location(r["values"])

\* the check of a row: helpers subscripts effectiveValue and formattedValue
\* (the default of .get is evaluated before the call), components reads
\* both with .get
CheckOf(impl, o) ==
    IF "values" \notin DOMAIN o THEN Returned(FALSE)
    ELSE LET cell == o["values"][1]
         IN IF impl = "helpers" /\ "effectiveValue" \notin DOMAIN cell THEN Raised("KeyError")
            ELSE IF impl = "helpers" /\ "formattedValue" \notin DOMAIN cell THEN Raised("KeyError")
            ELSE Returned(DictGet(DictGet(cell, "effectiveValue", EmptyDict), "boolValue",
                                  strip(DictGet(cell, "formattedValue", "")) # ""))

\* get_colour(o["values"][0]) if "values" in o else None
ColourOf(o) == IF "values" \in DOMAIN o THEN get_colour(o["values"][1]) ELSE PyNone

\* the exception of the first element of a list comprehension that raises,
\* "none" when no element does
FirstRaised(results) ==
    IF \A i \in DOMAIN results : results[i].exc = "none" THEN "none"
    ELSE results[CHOOSE i \in DOMAIN results :
                    /\ results[i].exc # "none"
                    /\ \A j \in 1..(i - 1) : results[j].exc = "none"].exc

Min(S) == CHOOSE x \in S : \A y \in S : x <= y

IsNone(v) == "t" \in DOMAIN v /\ v.t = "NoneType"

\* the marker of one row of the zip: PlayerMarker(), the fields, the
\* dimension id, then set_uuid_from_name() and set_color(c)
RowMarker(dspec, n, p, ch, c, u) ==
    LET m == [PlayerMarker__init__(u) EXCEPT !.name = n, !.position = p, !.visible = ch,
                                             !.dimensionId = DictGet(dspec, "id", 0)]
    IN set_color(set_uuid_from_name(m), c)

\* the mutation of the zip loop that puts a row's marker before those of the
\* rows above it
RECURSIVE ZipMarkers_prepending(_, _, _, _, _, _, _, _)
ZipMarkers_prepending(dspec, names, positions, checks, colours, u, i, n) ==
    IF i > n THEN <<>>
    ELSE LET rest == ZipMarkers_prepending(dspec, names, positions, checks, colours, u, i + 1, n)
         IN IF IsNone(positions[i]) THEN rest
            ELSE rest \o <<RowMarker(dspec, names[i], positions[i],
                                     IF checks = <<>> THEN TRUE ELSE checks[i],
                                     IF colours = <<>> THEN PyNone ELSE colours[i], u)>>

\* the body of the zip loop for the rows i..n
RECURSIVE ZipMarkers(_, _, _, _, _, _, _, _)
ZipMarkers(dspec, names, positions, checks, colours, u, i, n) ==
    IF i > n THEN <<>>
    ELSE LET rest == ZipMarkers(dspec, names, positions, checks, colours, u, i + 1, n)
         IN IF IsNone(positions[i]) THEN rest
            ELSE <<RowMarker(dspec, names[i], positions[i],
                             IF checks = <<>> THEN TRUE ELSE checks[i],
                             IF colours = <<>> THEN PyNone ELSE colours[i], u)>> \o rest

\* one pass of the loop over the dimensions (both modules): the four lists,
\* then the zip; u is the uuid4() of PlayerMarker()
DimensionMarkers(impl, dspec, data, u) ==
    LET hascheck == "check" \in DOMAIN dspec
        nrows == RowData(impl, data.names)
        prows == RowData(impl, data.positions)
        crows == IF hascheck THEN RowData(impl, data.checks) ELSE Returned(<<>>)
    IN IF nrows.exc # "none" THEN Raised(nrows.exc)
       ELSE IF prows.exc # "none" THEN Raised(prows.exc)
       ELSE LET names == [i \in DOMAIN nrows.val |-> NameOf(nrows.val[i])]
                pres == [i \in DOMAIN prows.val |-> PositionOf(impl, prows.val[i])]
            IN IF FirstRaised(pres) # "none" THEN Raised(FirstRaised(pres))
               ELSE IF crows.exc # "none" THEN Raised(crows.exc)
               ELSE LET cres == [i \in DOMAIN crows.val |-> CheckOf(impl, crows.val[i])]
                        positions == [i \in DOMAIN pres |-> pres[i].val]
                        checks == [i \in DOMAIN cres |-> cres[i].val]
                        colours == [i \in DOMAIN crows.val |-> ColourOf(crows.val[i])]
                        n == Min({Len(names), Len(positions)}
                                    \cup (IF hascheck THEN {Len(checks)} ELSE {}))
                    IN IF FirstRaised(cres) # "none" THEN Raised(FirstRaised(cres))
                       ELSE Returned(ZipMarkers(dspec, names, positions,
                                                IF hascheck THEN checks ELSE <<>>,
                                                IF hascheck THEN colours ELSE <<>>,
                                                u, 1, n))

(***************************************************************************)
(* The grid data the model fetches.                                        *)
(***************************************************************************)
MaxRows == 3

NumCell(v) == [effectiveValue |-> [numberValue |-> v]]
TextCell(text) == [effectiveValue |-> [stringValue |-> text], formattedValue |-> text]
BoolCell(b) ==
    [effectiveValue |-> [boolValue |-> b], formattedValue |-> IF b THEN "TRUE" ELSE "FALSE"]
Coloured(cell, rgb) ==
    WithKey(cell, "userEnteredFormat", [textFormat |-> [foregroundColor |-> rgb]])
Row(cells) == [values |-> cells]

\* the rows of a position range: no cell at all; three integers; a
\* non-integral x, no y and a negative z; no x; a z that is no number
RowInts == Row(<<NumCell(PyInt(10)), NumCell(PyInt(5)), NumCell(PyInt(20))>>)
RowMixed == Row(<<NumCell(PyHalves(21)), EmptyDict, NumCell(PyInt(0 - 3))>>)
RowNoX == Row(<<EmptyDict, NumCell(PyInt(5)), NumCell(PyInt(20))>>)
RowBadZ == Row(<<NumCell(PyInt(10)), NumCell(PyInt(5)), TextCell("n/a")>>)
PosRows == {EmptyDict, RowInts, RowMixed, RowNoX, RowBadZ}

\* a range with no data has no rowData
PositionSets == {EmptyDict} \cup {[rowData |-> s] : s \in SeqsUpTo(PosRows, MaxRows)}

NameCycle == <<Row(<<TextCell("Steve")>>), Row(<<TextCell("Spawn")>>), EmptyDict>>
NameSets ==
    {EmptyDict} \cup
    {[rowData |-> [i \in 1..n |-> NameCycle[((i - 1) % Len(NameCycle)) + 1]]] :
        n \in {MaxRows - 1, MaxRows}}

\* the rows of a check range: a red TRUE; a text; no cell; a FALSE; a cell
\* that has a format and nothing else
CheckCycle ==
    << Row(<<Coloured(BoolCell(TRUE), [red |-> 2])>>),
       Row(<<Coloured(TextCell("yes"), [red |-> 2, green |-> 1])>>),
       EmptyDict,
       Row(<<BoolCell(FALSE)>>),
       Row(<<Coloured(EmptyDict, [blue |-> 2])>>) >>
CheckSets ==
    {EmptyDict} \cup
    {[rowData |-> [i \in 1..n |-> CheckCycle[((i - 1 + o) % Len(CheckCycle)) + 1]]] :
        n \in {MaxRows - 1, MaxRows}, o \in {0, Len(CheckCycle) - 1}}

\* the dimensions of the sheets of the model
Overworld == [name |-> "A2:A", position |-> "B2:D"]
OverworldChecked == [name |-> "A2:A", position |-> "B2:D", check |-> "E2:E"]
Nether == [name |-> "G2:G", position |-> "H2:J", id |-> 1]
DimensionConfigs == { <<Overworld>>, <<OverworldChecked>>, <<Overworld, Nether>> }

\* what _fetch_ranges can give for the k-th dimension: every combination of
\* the sets for the first, four fetches for the later ones
FetchFor(dspec, k) ==
    IF k > 1
    THEN { [names |-> [rowData |-> <<NameCycle[1], NameCycle[2]>>],
            positions |-> [rowData |-> s] ] :
                s \in { <<>>, <<RowInts>>, <<RowMixed, RowInts>>, <<RowInts, RowNoX>> } }
    ELSE IF "check" \in DOMAIN dspec
    THEN { [names |-> n, positions |-> p, checks |-> c] :
                n \in NameSets, p \in PositionSets, c \in CheckSets }
    ELSE { [names |-> n, positions |-> p] : n \in NameSets, p \in PositionSets }

(***************************************************************************)
(* The documents of the model.                                             *)
(***************************************************************************)
MaxDefis == 2
MaxCalls == 2

BaseDoc == [x \in {"world", "dest"} |-> IF x = "world" THEN "w1" ELSE "d1"]

\* the documents Definitions are made of: every block registered; a sheet
\* whose API key is missing; a sheet of an unregistered type; no block at all;
\* a remote whose tag only the spreadsheet table has, and an unregistered webhook
ExtensionDocs ==
    { WithKey(WithKey(WithKey(BaseDoc, "spreadsheet", Block("gsheet", TRUE)),
                      "remote", Block("rsync", FALSE)),
              "webhook", Block("discord", FALSE)),
      WithKey(WithKey(BaseDoc, "spreadsheet", Block("gsheet", FALSE)),
              "remote", Block("rsync", FALSE)),
      WithKey(WithKey(BaseDoc, "spreadsheet", Block("nosuch", FALSE)),
              "webhook", Block("discord", FALSE)),
      BaseDoc,
      WithKey(WithKey(WithKey(BaseDoc, "spreadsheet", Block("gsheet", TRUE)),
                      "remote", Block("gsheet", TRUE)),
              "webhook", Block("nosuch", FALSE)) }

(***************************************************************************)
(* The state before anything is constructed.                               *)
(***************************************************************************)
HeapInit ==
    /\ specs = SpecsAtImport
    /\ defis = <<>>
    /\ insts = <<>>
    /\ cache = {}
    /\ uuidctr = 0
    /\ hist = <<>>
    /\ effects = <<>>

NoObjectCall == [op |-> "none", d |-> 0, inst |-> 0, arg |-> 0, res |-> Returned(0)]

ResolveIdle ==
    /\ ncalls = 0
    /\ rlast = NoObjectCall

NoArgs == [dry_run |-> FALSE, sheet_only |-> FALSE, skip_map |-> FALSE,
           skip_sheet |-> FALSE, skip_remote |-> FALSE, skip_webhook |-> FALSE]

At(step, k, t) == [at |-> step, k |-> k, t |-> t]

MainIdle ==
    /\ margs = NoArgs
    /\ mfiles = <<>>
    /\ mpc = At("idle", 0, 0)
    /\ mrunning = FALSE
    /\ merr = ""
    /\ mlog = <<>>

Where(step, k) == [at |-> step, k |-> k]

MarkersIdle ==
    /\ gimpl = "helpers"
    /\ gdims = <<>>
    /\ gpc = Where("idle", 0)
    /\ gfetched = <<>>
    /\ gmarkers = <<>>
    /\ gerr = ""

IdentityIdle ==
    /\ pms = <<>>
    /\ pobs = <<>>
    /\ pcalls = 0

NoAccess == [op |-> "none", key |-> "", val |-> PyNone, res |-> Returned(<<>>),
             before |-> [data |-> EmptyDict, attrs |-> EmptyDict]]

ObjectIdle ==
    /\ odata = EmptyDict
    /\ oattrs = EmptyDict
    /\ olast = NoAccess
    /\ ocalls = 0

(***************************************************************************)
(* The flattener: the inputs are drawn at the start, a call applies the    *)
(* function to them.                                                       *)
(***************************************************************************)
NoCall == [op |-> "none", res |-> Returned(<<>>)]

FlattenIdle ==
    /\ fobj = PyList(<<>>)
    /\ fdefi = [x \in {"world", "dest"} |-> IF x = "world" THEN "w1" ELSE "d1"]
    /\ fret = NoCall

FlattenInit ==
    /\ ObjectIdle
    /\ HeapInit
    /\ ResolveIdle
    /\ MarkersIdle
    /\ IdentityIdle
    /\ MainIdle
    /\ fret = NoCall
    /\ \/ fobj \in OptionStructures \cup Scalars /\ fdefi = [x \in {"world", "dest"} |-> IF x = "world" THEN "w1" ELSE "d1"]
       \/ fobj = PyList(<<>>) /\ fdefi \in DefinitionData

CallIterableToOptions ==
    /\ fret.op = "none"
    /\ fret' = [op |-> "iterable_to_options", res |-> iterable_to_options(fobj)]
    /\ UNCHANGED <<fobj, fdefi, hvars, rvars, mvars, kvars>>

CallStringCommands ==
    /\ fret.op = "none"
    /\ fret' = [op |-> "string_commands", res |-> string_commands(fdefi)]
    /\ UNCHANGED <<fobj, fdefi, hvars, rvars, mvars, kvars>>

FlattenNext == CallIterableToOptions \/ CallStringCommands

SpecFlatten == FlattenInit /\ [][FlattenNext]_vars


(***************************************************************************)
(* Definitions and extensions under any sequence of calls of their user.   *)
(***************************************************************************)
ResolveInit ==
    /\ ObjectIdle
    /\ HeapInit
    /\ ResolveIdle
    /\ MarkersIdle
    /\ IdentityIdle
    /\ FlattenIdle
    /\ MainIdle

\* Definition(data); the Definitions are made before the first call on one
MakeDefinition ==
    \E data \in ExtensionDocs :
        /\ Len(defis) < MaxDefis
        /\ ncalls = 0
        /\ SetHeap(NewDefinition(Heap, data))
        /\ rlast' = [NoObjectCall EXCEPT !.op = "Definition", !.d = Len(defis) + 1]
        /\ UNCHANGED <<ncalls, fvars, mvars, kvars>>

\* defi.spreadsheet, defi.remote or defi.webhook
GetProperty ==
    \E d \in 1..Len(defis), cap \in Caps :
        /\ ncalls < MaxCalls
        /\ LET got == PropertyGet(Heap, d, cap)
           IN /\ SetHeap(got.heap)
              /\ rlast' = [NoObjectCall EXCEPT !.op = cap, !.d = d, !.res = got.res]
        /\ ncalls' = ncalls + 1
        /\ UNCHANGED <<fvars, mvars, kvars>>

\* defi._cache_all()
CacheAll ==
    \E d \in 1..Len(defis) :
        /\ ncalls < MaxCalls
        /\ LET got == _cache_all(Heap, d)
           IN /\ SetHeap(got.heap)
              /\ rlast' = [NoObjectCall EXCEPT !.op = "_cache_all", !.d = d, !.res = got.res]
        /\ ncalls' = ncalls + 1
        /\ UNCHANGED <<fvars, mvars, kvars>>

\* sheet.get_playermarkers(defi), with or without the context
GetPlayermarkers ==
    \E i \in 1..Len(insts), q \in 0..Len(defis), fails \in BOOLEAN :
        /\ ncalls < MaxCalls
        /\ insts[i].cap = "spreadsheet"
        /\ rlast' = [NoObjectCall EXCEPT !.op = "get_playermarkers", !.inst = i, !.arg = q,
                                         !.res = get_playermarkers_context(Heap, i, q, fails)]
        /\ ncalls' = ncalls + 1
        /\ UNCHANGED <<hvars, fvars, mvars, kvars>>

\* sheet.write_playermarkers(defi), with or without the context
WritePlayermarkers ==
    \E i \in 1..Len(insts), q \in 0..Len(defis), fails \in BOOLEAN :
        /\ ncalls < MaxCalls
        /\ insts[i].cap = "spreadsheet"
        /\ LET got == write_playermarkers(Heap, i, q, fails)
           IN /\ SetHeap(got.heap)
              /\ rlast' = [NoObjectCall EXCEPT !.op = "write_playermarkers", !.inst = i,
                                               !.arg = q, !.res = got.res]
        /\ ncalls' = ncalls + 1
        /\ UNCHANGED <<fvars, mvars, kvars>>

\* remote.upload(defi), with or without the context
Upload ==
    \E i \in 1..Len(insts), q \in 0..Len(defis), rc \in {0, 1} :
        /\ ncalls < MaxCalls
        /\ insts[i].cap = "remote"
        /\ LET got == upload(Heap, i, q, rc)
           IN /\ SetHeap(got.heap)
              /\ rlast' = [NoObjectCall EXCEPT !.op = "upload", !.inst = i, !.arg = q,
                                               !.res = got.res]
        /\ ncalls' = ncalls + 1
        /\ UNCHANGED <<fvars, mvars, kvars>>

\* remote.upload_playersdata(defi), with or without the context
UploadPlayersdata ==
    \E i \in 1..Len(insts), q \in 0..Len(defis), rc \in {0, 1} :
        /\ ncalls < MaxCalls
        /\ insts[i].cap = "remote"
        /\ LET got == upload_playersdata(Heap, i, q, rc)
           IN /\ SetHeap(got.heap)
              /\ rlast' = [NoObjectCall EXCEPT !.op = "upload_playersdata", !.inst = i,
                                               !.arg = q, !.res = got.res]
        /\ ncalls' = ncalls + 1
        /\ UNCHANGED <<fvars, mvars, kvars>>

ResolveNext ==
    \/ MakeDefinition
    \/ GetProperty
    \/ CacheAll
    \/ GetPlayermarkers
    \/ WritePlayermarkers
    \/ Upload
    \/ UploadPlayersdata

SpecResolve == ResolveInit /\ [][ResolveNext]_vars

(***************************************************************************)
(* The registration of variants: the tables are empty when bases.py has    *)
(* been executed, and a module registers a variant under a tag by an       *)
(* assignment into the specs of the capability.                            *)
(***************************************************************************)
MaxRegs == 2

RegTags == {"gsheet", "rsync"}

RegistryInit ==
    /\ ObjectIdle
    /\ specs = [c \in Caps |-> {}]
    /\ defis = <<>>
    /\ insts = <<>>
    /\ cache = {}
    /\ uuidctr = 0
    /\ hist = <<>>
    /\ effects = <<>>
    /\ ResolveIdle
    /\ MarkersIdle
    /\ IdentityIdle
    /\ FlattenIdle
    /\ MainIdle

\* the tags registered so far, over all tables
RegCount == Cardinality(UNION {specs[c] \X {c} : c \in Caps})

\* Cap.specs[tag] = Variant, as a module does when it is imported, before
\* the first Definition is made
RegisterVariant ==
    \E cap \in Caps, tag \in RegTags :
        /\ RegCount < MaxRegs
        /\ defis = <<>>
        /\ tag \notin Registered(Heap, cap)
        /\ SetHeap(Register(Heap, cap, tag))
        /\ rlast' = [NoObjectCall EXCEPT !.op = "register"]
        /\ UNCHANGED <<ncalls, fvars, mvars, kvars>>

\* Definition(data), of the one Definition the tables are looked up for
MakeOneDefinition == defis = <<>> /\ MakeDefinition

RegistryNext ==
    \/ RegisterVariant
    \/ MakeOneDefinition
    \/ GetProperty

SpecRegistry == RegistryInit /\ [][RegistryNext]_vars

(***************************************************************************)
(* main (main.py): parse the command line, load every definition, resolve  *)
(* the extensions of every definition, then process the definitions one    *)
(* after the other.                                                        *)
(***************************************************************************)
MaxFiles == 2

ArgSets == [dry_run : BOOLEAN, sheet_only : BOOLEAN, skip_map : BOOLEAN,
            skip_sheet : BOOLEAN, skip_remote : BOOLEAN, skip_webhook : BOOLEAN]

\* a run whose --dry-run is not looked at
DRY_never(a) == FALSE

\* DRY: bool = ARGS.dry_run
DRY(a) == a.dry_run

\* SKIP_GEN, SKIP_SPREADSHEET, SKIP_REMOTE and SKIP_WEBHOOK
SKIP_GEN(a) == IF a.sheet_only THEN TRUE ELSE a.skip_map
SKIP_SPREADSHEET(a) == IF a.sheet_only THEN FALSE ELSE a.skip_sheet
SKIP_REMOTE(a) == IF a.sheet_only THEN FALSE ELSE a.skip_remote
SKIP_WEBHOOK(a) == IF a.sheet_only THEN TRUE ELSE a.skip_webhook

OneTask == <<PyDict(<<[k |-> PyStr("--a"), v |-> PyBool(TRUE)]>>)>>
TwoTasks == <<PyList(<<PyStr("-b"), PyInt(0)>>), PyDict(<<[k |-> PyStr("-b"), v |-> PyStr("x")]>>)>>

\* the documents of the -f files: the documents of ExtensionDocs with one
\* task each, the document with a sheet and a webhook and no remote, and the
\* document with no block with two tasks, with an empty task list, and the
\* document with every block with no tasks key
MainDocs ==
    {WithKey(b, "tasks", OneTask) : b \in ExtensionDocs}
        \cup {WithKey(WithKey(WithKey(BaseDoc, "spreadsheet", Block("gsheet", TRUE)),
                              "webhook", Block("discord", FALSE)), "tasks", OneTask)}
        \cup {WithKey(BaseDoc, "tasks", TwoTasks), WithKey(BaseDoc, "tasks", <<>>)}
        \cup {b \in ExtensionDocs : "webhook" \in DOMAIN b /\ b["webhook"].type = "discord"
                                      /\ "remote" \in DOMAIN b}

RECURSIVE LoadAll(_, _, _)
LoadAll(h, files, i) ==
    IF i > Len(files) THEN h ELSE LoadAll(NewDefinition(h, files[i]), files, i + 1)

MainInit ==
    /\ ObjectIdle
    /\ HeapInit
    /\ ResolveIdle
    /\ MarkersIdle
    /\ IdentityIdle
    /\ FlattenIdle
    /\ margs = NoArgs
    /\ mfiles \in SeqsUpTo(MainDocs, MaxFiles) \ {<<>>}
    /\ mpc = At("start", 0, 0)
    /\ mrunning = FALSE
    /\ merr = ""
    /\ mlog = <<>>

\* a loop over the definitions that catches the exception e of one and goes
\* on with the next
MainFails_next_definition(e) ==
    /\ mpc' = IF mpc.k >= 1 /\ mpc.k < Len(mfiles) THEN At("gen", mpc.k + 1, 0)
              ELSE At("failed", mpc.k, mpc.t)
    /\ merr' = e

\* the exception e ends the run
MainFails(e) ==
    /\ mpc' = At("failed", mpc.k, mpc.t)
    /\ merr' = e

\* main.py:136-170: the command line is parsed and the skip flags are set
MainParseArgs ==
    \E a \in ArgSets :
        /\ mpc.at = "start"
        /\ margs' = a
        /\ IF a.sheet_only /\ a.skip_sheet
           THEN /\ MainFails("--skip-sheet breaks --sheet-only")
                /\ mlog' = mlog
                            \o (IF a.skip_map THEN <<"--skip-map implied by --sheet-only">> ELSE <<>>)
                            \o (IF a.skip_webhook THEN <<"--skip-webhook implied by --sheet-only">> ELSE <<>>)
           ELSE IF a.sheet_only /\ a.skip_remote
           THEN /\ MainFails("--skip-remote breaks --sheet-only")
                /\ mlog' = mlog
                            \o (IF a.skip_map THEN <<"--skip-map implied by --sheet-only">> ELSE <<>>)
                            \o (IF a.skip_webhook THEN <<"--skip-webhook implied by --sheet-only">> ELSE <<>>)
           ELSE /\ mpc' = At("load", 0, 0)
                /\ merr' = merr
                /\ mlog' = mlog
                            \o (IF a.sheet_only /\ a.skip_map
                                THEN <<"--skip-map implied by --sheet-only">> ELSE <<>>)
                            \o (IF a.sheet_only /\ a.skip_webhook
                                THEN <<"--skip-webhook implied by --sheet-only">> ELSE <<>>)
        /\ UNCHANGED <<mfiles, mrunning, hvars, rvars, fvars, kvars>>

\* main.py:172-173: DEFINITIONS = [(file, Definition.from_yaml(file)) ...]
MainLoad ==
    /\ mpc.at = "load"
    /\ SetHeap(LoadAll(Heap, mfiles, 1))
    /\ mpc' = At("cache", 1, 0)
    /\ UNCHANGED <<margs, mfiles, mrunning, merr, mlog, rvars, fvars, kvars>>

\* main.py:176-177: defi._cache_all() of the next definition
MainCacheAll ==
    /\ mpc.at = "cache"
    /\ LET got == _cache_all(Heap, mpc.k)
       IN /\ SetHeap(got.heap)
          /\ IF got.res.exc # "none" THEN MainFails(got.res.exc)
             ELSE /\ mpc' = IF mpc.k < Len(defis) THEN At("cache", mpc.k + 1, 0)
                            ELSE At("gen", 1, 0)
                  /\ merr' = merr
    /\ UNCHANGED <<margs, mfiles, mrunning, mlog, rvars, fvars, kvars>>

\* main.py:184-197: the map generation of the current definition is skipped,
\* has no task, or goes to its first task
MainGen ==
    /\ mpc.at = "gen"
    /\ LET data == defis[mpc.k].data
       IN IF SKIP_GEN(margs)
          THEN mpc' = At("sheet", mpc.k, 0) /\ UNCHANGED <<merr, mlog>>
          ELSE IF "tasks" \notin DOMAIN data
          THEN MainFails("AttributeError") /\ UNCHANGED mlog
          ELSE IF data["tasks"] = <<>>
          THEN /\ mpc' = At("sheet", mpc.k, 0)
               /\ mlog' = Append(mlog, "No tasks listed!")
               /\ merr' = merr
          ELSE mpc' = At("render", mpc.k, 1) /\ UNCHANGED <<merr, mlog>>
    /\ UNCHANGED <<margs, mfiles, mrunning, hvars, rvars, fvars, kvars>>

\* a loop over the tasks that goes on to the upload when it ends
AfterTask_to_remote ==
    IF mpc.t < Len(defis[mpc.k].data["tasks"]) THEN At("render", mpc.k, mpc.t + 1)
    ELSE At("remote", mpc.k, 0)

\* the step after task t of the current definition
AfterTask ==
    IF mpc.t < Len(defis[mpc.k].data["tasks"]) THEN At("render", mpc.k, mpc.t + 1)
    ELSE At("sheet", mpc.k, 0)

\* the mutation of the renderer's start that does not wait for the running
\* renderer (Popen in the place of subprocess.run)
MainStartRenderer_not_waiting ==
    /\ mpc.at = "render"
    /\ ~DRY(margs)
    /\ mlog' = Append(mlog, "  - papyruscs")
    /\ mrunning' = TRUE
    /\ effects' = Append(effects,
            [op |-> "papyrus", defi |-> mpc.k, task |-> mpc.t,
             argv |-> string_commands(defis[mpc.k].data).val[mpc.t], rc |-> 0])
    /\ mpc' = IF mrunning THEN AfterTask ELSE mpc
    /\ UNCHANGED <<margs, mfiles, merr, specs, defis, insts, cache, uuidctr, hist,
                   rvars, fvars, kvars>>

\* main.py:197-200: the command of the next task is logged and, unless the
\* run is dry, subprocess.run starts the renderer with it
MainStartRenderer ==
    /\ mpc.at = "render"
    /\ ~mrunning
    /\ mlog' = Append(mlog, "  - papyruscs")
    /\ IF DRY(margs)
       THEN /\ mpc' = AfterTask
            /\ UNCHANGED <<mrunning, effects>>
       ELSE /\ mrunning' = TRUE
            /\ effects' = Append(effects,
                    [op |-> "papyrus", defi |-> mpc.k, task |-> mpc.t,
                     argv |-> string_commands(defis[mpc.k].data).val[mpc.t], rc |-> 0])
            /\ mpc' = mpc
    /\ UNCHANGED <<margs, mfiles, merr, specs, defis, insts, cache, uuidctr, hist,
                   rvars, fvars, kvars>>

\* main.py:200-202: the renderer exits, subprocess.run returns
MainRendererExit ==
    \E rc \in {0, 1} :
        /\ mpc.at = "render"
        /\ mrunning
        /\ mrunning' = FALSE
        /\ effects' = Append(effects,
                [op |-> "papyrus exit", defi |-> mpc.k, task |-> mpc.t, argv |-> <<>>,
                 rc |-> rc])
        /\ IF rc # 0 THEN MainFails("An error occured!")
           ELSE mpc' = AfterTask /\ merr' = merr
        /\ UNCHANGED <<margs, mfiles, mlog, specs, defis, insts, cache, uuidctr, hist,
                       rvars, fvars, kvars>>

\* main.py:204-213: the marker file of the current definition
MainSheet ==
    \E fails \in BOOLEAN :
        /\ mpc.at = "sheet"
        /\ IF SKIP_SPREADSHEET(margs)
           THEN mpc' = At("remote", mpc.k, 0) /\ UNCHANGED <<merr, hvars>>
           ELSE LET got == PropertyGet(Heap, mpc.k, "spreadsheet")
                    did == write_playermarkers(got.heap, got.res.val, 0, fails)
                IN IF got.res.exc # "none"
                   THEN SetHeap(got.heap) /\ MainFails(got.res.exc)
                   ELSE IF got.res.val = 0 \/ DRY(margs)
                   THEN /\ SetHeap(got.heap)
                        /\ mpc' = At("remote", mpc.k, 0)
                        /\ merr' = merr
                   ELSE /\ SetHeap(did.heap)
                        /\ IF did.res.exc # "none" THEN MainFails(did.res.exc)
                           ELSE mpc' = At("remote", mpc.k, 0) /\ merr' = merr
        /\ mlog' = IF ~SKIP_SPREADSHEET(margs) /\ DRY(margs)
                        /\ PropertyGet(Heap, mpc.k, "spreadsheet").res.exc = "none"
                        /\ PropertyGet(Heap, mpc.k, "spreadsheet").res.val # 0
                    THEN Append(mlog, "defi.spreadsheet") ELSE mlog
        /\ UNCHANGED <<margs, mfiles, mrunning, rvars, fvars, kvars>>

\* main.py:215-224: the upload of the current definition
MainRemote ==
    \E rc \in {0, 1} :
        /\ mpc.at = "remote"
        /\ IF SKIP_REMOTE(margs)
           THEN mpc' = At("webhook", mpc.k, 0) /\ UNCHANGED <<merr, hvars>>
           ELSE LET got == PropertyGet(Heap, mpc.k, "remote")
                    did == upload(got.heap, got.res.val, 0, rc)
                IN IF got.res.exc # "none"
                   THEN SetHeap(got.heap) /\ MainFails(got.res.exc)
                   ELSE IF got.res.val = 0 \/ DRY(margs)
                   THEN /\ SetHeap(got.heap)
                        /\ mpc' = At("webhook", mpc.k, 0)
                        /\ merr' = merr
                   ELSE /\ SetHeap(did.heap)
                        /\ IF did.res.exc # "none" THEN MainFails(did.res.exc)
                           ELSE mpc' = At("webhook", mpc.k, 0) /\ merr' = merr
        /\ mlog' = IF ~SKIP_REMOTE(margs) /\ DRY(margs)
                        /\ PropertyGet(Heap, mpc.k, "remote").res.exc = "none"
                        /\ PropertyGet(Heap, mpc.k, "remote").res.val # 0
                    THEN Append(mlog, "defi.remote") ELSE mlog
        /\ UNCHANGED <<margs, mfiles, mrunning, rvars, fvars, kvars>>

\* the step after the last step of the current definition
AfterDefinition ==
    IF mpc.k < Len(defis) THEN At("gen", mpc.k + 1, 0) ELSE At("done", mpc.k, 0)

\* main.py:226-235: the notification of the current definition
MainWebhook ==
    \E ok \in BOOLEAN :
        /\ mpc.at = "webhook"
        /\ IF SKIP_WEBHOOK(margs)
           THEN mpc' = AfterDefinition /\ UNCHANGED <<merr, hvars>>
           ELSE LET got == PropertyGet(Heap, mpc.k, "webhook")
                    did == push(got.heap, got.res.val, ok)
                IN IF got.res.exc # "none"
                   THEN SetHeap(got.heap) /\ MainFails(got.res.exc)
                   ELSE IF got.res.val = 0 \/ DRY(margs)
                   THEN /\ SetHeap(got.heap)
                        /\ mpc' = AfterDefinition
                        /\ merr' = merr
                   ELSE /\ SetHeap(did.heap)
                        /\ IF did.res.exc # "none" THEN MainFails(did.res.exc)
                           ELSE mpc' = AfterDefinition /\ merr' = merr
        /\ mlog' = IF ~SKIP_WEBHOOK(margs) /\ DRY(margs)
                        /\ PropertyGet(Heap, mpc.k, "webhook").res.exc = "none"
                        /\ PropertyGet(Heap, mpc.k, "webhook").res.val # 0
                    THEN Append(mlog, "defi.webhook") ELSE mlog
        /\ UNCHANGED <<margs, mfiles, mrunning, rvars, fvars, kvars>>

MainNext ==
    \/ MainParseArgs
    \/ MainLoad
    \/ MainCacheAll
    \/ MainGen
    \/ MainStartRenderer
    \/ MainRendererExit
    \/ MainSheet
    \/ MainRemote
    \/ MainWebhook

SpecMain == MainInit /\ [][MainNext]_vars

(***************************************************************************)
(* PlayerMarker objects and the calls their user makes on them.            *)
(***************************************************************************)
MaxMarkers == 2
MaxMarkerCalls == 4

\* the markers of the model, as PlayerMarker() with no argument or
\* PlayerMarker(data) makes them: a nameless one, two named Steve (one of
\* them with the uuid that Spawn derives, in another dimension) and one
\* named Spawn
MarkerData ==
    LET named(u, n, d) == [PlayerMarker__init__(u) EXCEPT !.name = PyStr(n), !.dimensionId = d]
    IN { PlayerMarker__init__(Uuid4A),
         named(Uuid4A, "Steve", 0),
         named(UUIDStr(md5_text("Spawn")), "Steve", 1),
         named(Uuid4B, "Spawn", 0) }

\* the colours set_color is called with
MarkerColours == {PyNone, PyStr(""), PyStr("#123456")}

\* how the uuid and the colour of a marker came about
Fresh ==
    [uuid_by |-> "uuid4", uuid_name |-> PyNone, uuid_was |-> <<>>,
     color_by |-> "default", color_name |-> PyNone, color_uuid |-> <<>>, color_arg |-> PyNone]

IdentityInit ==
    /\ ObjectIdle
    /\ HeapInit
    /\ ResolveIdle
    /\ FlattenIdle
    /\ MainIdle
    /\ MarkersIdle
    /\ IdentityIdle

\* m = PlayerMarker() or PlayerMarker(data)
PmNew ==
    \E data \in MarkerData :
        /\ Len(pms) < MaxMarkers
        /\ pms' = Append(pms, data)
        /\ pobs' = Append(pobs, Fresh)
        /\ UNCHANGED <<pcalls, gvars, hvars, rvars, fvars, mvars, ovars>>

\* m.set_uuid_from_name()
PmSetUuidFromName ==
    \E i \in DOMAIN pms :
        /\ pcalls < MaxMarkerCalls
        /\ Hashable(pms[i])
        /\ pcalls' = pcalls + 1
        /\ pms' = [pms EXCEPT ![i] = set_uuid_from_name(@)]
        /\ pobs' = [pobs EXCEPT ![i].uuid_by = "name", ![i].uuid_name = pms[i].name,
                                ![i].uuid_was = pms[i].uuid]
        /\ UNCHANGED <<gvars, hvars, rvars, fvars, mvars, ovars>>

\* m.set_color(c)
PmSetColor ==
    \E i \in DOMAIN pms : \E c \in MarkerColours :
        /\ pcalls < MaxMarkerCalls
        /\ PyIs(c, PyNone) => Hashable(pms[i])
        /\ pcalls' = pcalls + 1
        /\ pms' = [pms EXCEPT ![i] = set_color(@, c)]
        /\ pobs' = [pobs EXCEPT ![i].color_by = IF PyIs(c, PyNone) THEN "derived" ELSE "explicit",
                                ![i].color_name = pms[i].name,
                                ![i].color_uuid = pms[i].uuid,
                                ![i].color_arg = c]
        /\ UNCHANGED <<gvars, hvars, rvars, fvars, mvars, ovars>>

IdentityNext ==
    \/ PmNew
    \/ PmSetUuidFromName
    \/ PmSetColor

SpecIdentity == IdentityInit /\ [][IdentityNext]_vars

(***************************************************************************)
(* get_playermarkers of a GoogleSheet: one step per dimension, each with   *)
(* its fetch.                                                              *)
(***************************************************************************)
MarkersInit ==
    /\ ObjectIdle
    /\ HeapInit
    /\ ResolveIdle
    /\ FlattenIdle
    /\ MainIdle
    /\ IdentityIdle
    /\ gimpl \in {"helpers", "components"}
    /\ gdims \in DimensionConfigs
    /\ gpc = Where("loop", 1)
    /\ gfetched = <<>>
    /\ gmarkers = <<>>
    /\ gerr = ""

\* the body of `for dname, dspec in self["dimensions"].items()`
GmDimension ==
    /\ gpc.at = "loop"
    /\ gpc.k <= Len(gdims)
    /\ \E data \in FetchFor(gdims[gpc.k], gpc.k) : \E u \in Uuid4Values :
          LET r == DimensionMarkers(gimpl, gdims[gpc.k], data, u)
          IN /\ gfetched' = Append(gfetched, data)
             /\ IF r.exc # "none"
                THEN /\ gpc' = Where("raised", gpc.k)
                     /\ gerr' = r.exc
                     /\ UNCHANGED gmarkers
                ELSE /\ gpc' = Where("loop", gpc.k + 1)
                     /\ gmarkers' = gmarkers \o r.val
                     /\ UNCHANGED gerr
    /\ UNCHANGED <<gimpl, gdims, pvars, hvars, rvars, fvars, mvars, ovars>>

\* return markers
GmReturn ==
    /\ gpc.at = "loop"
    /\ gpc.k > Len(gdims)
    /\ gpc' = Where("returned", gpc.k)
    /\ UNCHANGED <<gimpl, gdims, gfetched, gmarkers, gerr, pvars, hvars, rvars, fvars, mvars, ovars>>

MarkersNext ==
    \/ GmDimension
    \/ GmReturn

SpecMarkers == MarkersInit /\ [][MarkersNext]_vars
(***************************************************************************)
(* The two access styles of a DictObject.  The object is its _data and its *)
(* other instance attributes; a call gives the object after it and what it *)
(* returned or raised.                                                     *)
(***************************************************************************)
MaxObjectCalls == 3

\* the names the keys of the model share with the attributes of the class:
\* Mapping.get and DictObject.to_dict
ClassAttributes == {"get", "to_dict"}

\* the bound method obj.<name>
PyMethod(name) == [t |-> "method", n |-> 0, s |-> name]

ObjKeys == {"name", "get", "_note", ""}
ObjValues == {PyInt(1), PyStr("v")}

Without(f, k) == [x \in DOMAIN f \ {k} |-> f[x]]

\* obj[key]
DictObject__getitem__(o, key) ==
    [obj |-> o,
     res |-> IF key \in DOMAIN o.data THEN Returned(<<o.data[key]>>) ELSE Raised("KeyError")]

\* obj[key] = value
DictObject__setitem__(o, key, value) ==
    [obj |-> [o EXCEPT !.data = WithKey(o.data, key, value)], res |-> Returned(<<>>)]

\* del obj[key]
DictObject__delitem__(o, key) ==
    IF key \in DOMAIN o.data
    THEN [obj |-> [o EXCEPT !.data = Without(o.data, key)], res |-> Returned(<<>>)]
    ELSE [obj |-> o, res |-> Raised("KeyError")]

\* DictObject.__getattr__, called when the normal lookup has failed:
\* object.__getattr__ raises AttributeError, then self[key] is tried and the
\* AttributeError is raised again when it raises KeyError
DictObject__getattr__(o, key) ==
    LET item == DictObject__getitem__(o, key)
    IN IF item.res.exc = "none" THEN item ELSE [obj |-> o, res |-> Raised("AttributeError")]

\* obj.<key>: the attribute of the class, then the instance attribute, then
\* __getattr__
getattr(o, key) ==
    IF key \in ClassAttributes THEN [obj |-> o, res |-> Returned(<<PyMethod(key)>>)]
    ELSE IF key \in DOMAIN o.attrs THEN [obj |-> o, res |-> Returned(<<o.attrs[key]>>)]
    ELSE DictObject__getattr__(o, key)

\* a __setattr__ that is object.__setattr__ for every key
DictObject__setattr__plain(o, key, value) ==
    [obj |-> [o EXCEPT !.attrs = WithKey(o.attrs, key, value)], res |-> Returned(<<>>)]

\* obj.<key> = value
DictObject__setattr__(o, key, value) ==
    IF key = "" THEN [obj |-> o, res |-> Raised("IndexError")]
    ELSE IF Head(key) = "_"
    THEN [obj |-> [o EXCEPT !.attrs = WithKey(o.attrs, key, value)], res |-> Returned(<<>>)]
    ELSE DictObject__setitem__(o, key, value)

\* del obj.<key>
DictObject__delattr__(o, key) ==
    IF key = "" THEN [obj |-> o, res |-> Raised("IndexError")]
    ELSE IF Head(key) = "_"
    THEN IF key \in DOMAIN o.attrs
         THEN [obj |-> [o EXCEPT !.attrs = Without(o.attrs, key)], res |-> Returned(<<>>)]
         ELSE [obj |-> o, res |-> Raised("AttributeError")]
    ELSE DictObject__delitem__(o, key)

Obj == [data |-> odata, attrs |-> oattrs]

\* DictObject(data)
ObjectInit ==
    /\ HeapInit
    /\ ResolveIdle
    /\ MarkersIdle
    /\ IdentityIdle
    /\ FlattenIdle
    /\ MainIdle
    /\ odata \in {EmptyDict, [x \in {"name"} |-> PyStr("n")]}
    /\ oattrs = EmptyDict
    /\ olast = NoAccess
    /\ ocalls = 0

\* the access op of key (and value) has given got
Accessed(op, key, value, got) ==
    /\ odata' = got.obj.data
    /\ oattrs' = got.obj.attrs
    /\ olast' = [op |-> op, key |-> key, val |-> value, res |-> got.res, before |-> Obj]
    /\ ocalls' = ocalls + 1
    /\ UNCHANGED <<fvars, hvars, rvars, mvars, gvars, pvars>>

ObjSetAttr ==
    \E k \in ObjKeys, v \in ObjValues :
        /\ ocalls < MaxObjectCalls
        /\ Accessed("setattr", k, v, DictObject__setattr__(Obj, k, v))

ObjSetItem ==
    \E k \in ObjKeys, v \in ObjValues :
        /\ ocalls < MaxObjectCalls
        /\ Accessed("setitem", k, v, DictObject__setitem__(Obj, k, v))

ObjGetAttr ==
    \E k \in ObjKeys :
        /\ ocalls < MaxObjectCalls
        /\ Accessed("getattr", k, PyNone, getattr(Obj, k))

ObjGetItem ==
    \E k \in ObjKeys :
        /\ ocalls < MaxObjectCalls
        /\ Accessed("getitem", k, PyNone, DictObject__getitem__(Obj, k))

ObjDelAttr ==
    \E k \in ObjKeys :
        /\ ocalls < MaxObjectCalls
        /\ Accessed("delattr", k, PyNone, DictObject__delattr__(Obj, k))

ObjDelItem ==
    \E k \in ObjKeys :
        /\ ocalls < MaxObjectCalls
        /\ Accessed("delitem", k, PyNone, DictObject__delitem__(Obj, k))

ObjectNext ==
    \/ ObjSetAttr
    \/ ObjSetItem
    \/ ObjGetAttr
    \/ ObjGetItem
    \/ ObjDelAttr
    \/ ObjDelItem

SpecObject == ObjectInit /\ [][ObjectNext]_vars


(***************************************************************************)
(* C2 and C1: the flattener and the command vectors.                       *)
(***************************************************************************)
\* the number of tokens entry i of a mapping contributes
EntryTokens(items, i) ==
    IF items[i].v \in {PyNone, PyBool(TRUE), PyBool(FALSE)} THEN 1 ELSE 2

\* the number of tokens the entries before entry i contribute
RECURSIVE TokensBefore(_, _)
TokensBefore(items, i) ==
    IF i <= 1 THEN 0 ELSE TokensBefore(items, i - 1) + EntryTokens(items, i - 1)

\* the reference flattening of the option structure o, token by token: token
\* p of a mapping belongs to the one entry i whose tokens cover position p
ReferenceFlattening(o) ==
    IF o.kind = "dict"
    THEN [p \in 1..TokensBefore(o.items, Len(o.items) + 1) |->
            LET i == CHOOSE j \in 1..Len(o.items) :
                        /\ TokensBefore(o.items, j) < p
                        /\ p <= TokensBefore(o.items, j) + EntryTokens(o.items, j)
            IN IF p = TokensBefore(o.items, i) + 1
               THEN PyStrOf(o.items[i].k)
               ELSE PyStrOf(o.items[i].v)]
    ELSE [p \in 1..Len(o.items) |-> PyStrOf(o.items[p])]

\* C2: iterable_to_options(o) is the reference flattening of o: in a mapping
\* a key whose value is None, True or False gives the key alone, every other
\* value (0, 1 and "" too) gives the key and then str(value), in mapping
\* order; a sequence gives str(e) of each element, in order.
C2_FlattenIsReference ==
    (fret.op = "iterable_to_options" /\ fobj.kind \in {"dict", "list"}) =>
        /\ fret.res.exc = "none"
        /\ fret.res.val = ReferenceFlattening(fobj)
        /\ fobj.kind = "list" => Len(fret.res.val) = Len(fobj.items)

\* a mapping with a flag entry and an entry of value 0 has been flattened
C2_Witness ==
    /\ fret.op = "iterable_to_options"
    /\ fobj.kind = "dict"
    /\ Len(fobj.items) = 2
    /\ fobj.items[1].v = PyBool(FALSE)
    /\ fobj.items[2].v = PyInt(0)
    /\ Len(fret.res.val) = 3

\* C1: string_commands gives one vector for each task, in task order, and
\* vector i is ["--world", world, "--output", dest], then the flattened
\* default options (nothing when the entry is absent), then the flattened
\* task i and nothing else.
C1_CommandVectors ==
    (fret.op = "string_commands" /\ "tasks" \in DOMAIN fdefi) =>
        /\ fret.res.exc = "none"
        /\ Len(fret.res.val) = Len(fdefi["tasks"])
        /\ \A i \in 1..Len(fdefi["tasks"]) :
            fret.res.val[i] =
                <<"--world", PyPath(fdefi["world"]), "--output", PyPath(fdefi["dest"])>>
                    \o (IF "defaultoptions" \in DOMAIN fdefi
                        THEN ReferenceFlattening(fdefi["defaultoptions"])
                        ELSE <<>>)
                    \o ReferenceFlattening(fdefi["tasks"][i])

\* two tasks with different options and non-empty default options have been
\* turned into vectors
C1_Witness ==
    /\ fret.op = "string_commands"
    /\ "tasks" \in DOMAIN fdefi
    /\ "defaultoptions" \in DOMAIN fdefi
    /\ Len(fdefi["defaultoptions"].items) > 0
    /\ Len(fdefi["tasks"]) = 2
    /\ Len(fdefi["tasks"][1].items) > 0
    /\ fdefi["tasks"][1] # fdefi["tasks"][2]
    /\ Len(fret.res.val) = 2

\* the default options entry is absent and the vectors carry the task alone
C1_WitnessNoDefaults ==
    /\ fret.op = "string_commands"
    /\ "tasks" \in DOMAIN fdefi
    /\ "defaultoptions" \notin DOMAIN fdefi
    /\ Len(fdefi["tasks"]) = 2
    /\ Len(fret.res.val[2]) = 6

(***************************************************************************)
(* C3, C5 and C6: resolution of the extensions of a Definition.            *)
(***************************************************************************)
\* Definition d has a cache entry for the property cap
Resolved(d, cap) ==
    \E e \in cache : e.cap = cap /\ e.key = d /\ e.val \in hist[d][cap].returns

\* C3 as stated: over any sequence of accesses and _cache_all calls the
\* construction (registry lookup plus constructor) of a capability of a
\* Definition runs at most once, the accesses all return the one instance and
\* a resolved capability stays resolved.
C3_ConstructionRunsAtMostOnce ==
    \A d \in 1..Len(defis) : \A cap \in Caps :
        /\ hist[d][cap].runs <= 1
        /\ Cardinality(hist[d][cap].returns) <= 1
        /\ hist[d][cap].returns # {} => Resolved(d, cap)

\* C3 as amended: once an access has returned, the property's body (and with
\* it the construction) never runs again, every later access returns the
\* same instance and the capability stays resolved; so a construction
\* completes at most once.  An access that raises memoizes nothing.
C3_MemoizedOnceReturned ==
    \A d \in 1..Len(defis) : \A cap \in Caps :
        /\ hist[d][cap].built <= 1
        /\ hist[d][cap].late = 0
        /\ Cardinality(hist[d][cap].returns) <= 1
        /\ hist[d][cap].returns # {} => Resolved(d, cap)

\* a capability has been accessed twice and more, was constructed once, and
\* the last access returned the instance
C3_Witness ==
    \E d \in 1..Len(defis) : \E cap \in Caps :
        /\ hist[d][cap].gets >= 2
        /\ hist[d][cap].built = 1
        /\ hist[d][cap].runs = 1
        /\ rlast.op = cap
        /\ rlast.res.exc = "none"
        /\ rlast.res.val # 0

\* C5 as stated: a Definition whose document has a block of an unregistered
\* type is never constructed (the construction fails), and no later access of
\* a property is what raises the error.
C5_UnregisteredFailsAtConstruction ==
    /\ \A d \in 1..Len(defis) : \A cap \in Caps \cap DOMAIN defis[d].data :
            defis[d].data[cap].type \in specs[cap]
    /\ rlast.op \in Caps \cup {"_cache_all"} => rlast.res.exc # "Cannot find type"

ContextOps == {"get_playermarkers", "write_playermarkers", "upload", "upload_playersdata"}

\* C6 as stated: an operation of an extension bound to Definition P works on
\* P when no context is passed, and on the Definition that is passed when
\* one is.
C6_ExplicitContextOverrides ==
    (rlast.op \in ContextOps /\ rlast.res.exc \in {"none", "Rsync command failed"}) =>
        LET used == effects[Len(effects)].defi
            ctx == IF rlast.op = "get_playermarkers" THEN rlast.res.val ELSE used
        IN ctx = (IF rlast.arg # 0 THEN rlast.arg ELSE insts[rlast.inst].parent)

(***************************************************************************)
(* C4: an unregistered type ends the run of main before anything is        *)
(* started.                                                                *)
(***************************************************************************)
\* block cap of document doc names a type its capability's table lacks
Unregistered(doc, cap) == cap \in DOMAIN doc /\ doc[cap].type \notin specs[cap]

SomeUnregistered == \E i \in 1..Len(mfiles) : \E cap \in Caps : Unregistered(mfiles[i], cap)

\* the registry lookup of an unregistered block has run
UnregisteredLookedUp ==
    \E d \in 1..Len(defis) : \E cap \in Caps :
        Unregistered(defis[d].data, cap) /\ hist[d][cap].runs > 0

HasNumber(c) == "effectiveValue" \in DOMAIN c /\ "numberValue" \in DOMAIN c["effectiveValue"]

\* row r has three cells, the x and the z of them with a number
HasCoordinates(r) ==
    /\ "values" \in DOMAIN r
    /\ Len(r["values"]) = 3
    /\ HasNumber(r["values"][1])
    /\ HasNumber(r["values"][3])

RowsOf(set) == DictGet(set, "rowData", <<>>)

\* the number of rows the three (or two) sets of a fetch have in common
Aligned(data) ==
    Min({Len(RowsOf(data.names)), Len(RowsOf(data.positions))}
            \cup (IF "checks" \in DOMAIN data THEN {Len(RowsOf(data.checks))} ELSE {}))

\* apart from the coordinates, the fetch has what the code subscripts: the
\* rowData of every set, and the value and the text of every check cell
SoundButCoordinates(data) ==
    /\ \A key \in DOMAIN data : "rowData" \in DOMAIN data[key]
    /\ \A i \in DOMAIN RowsOf(data.positions) :
            "values" \in DOMAIN data.positions["rowData"][i]
                => Len(data.positions["rowData"][i]["values"]) = 3
    /\ "checks" \in DOMAIN data =>
            \A i \in DOMAIN RowsOf(data.checks) :
                LET o == data.checks["rowData"][i]
                IN "values" \in DOMAIN o =>
                        {"effectiveValue", "formattedValue"} \subseteq DOMAIN o["values"][1]

RECURSIVE CompleteRows(_, _)
CompleteRows(fetched, k) ==
    IF k = 0 THEN 0
    ELSE CompleteRows(fetched, k - 1)
            + Cardinality({i \in 1..Aligned(fetched[k]) :
                                HasCoordinates(RowsOf(fetched[k].positions)[i])})

\* C7 as stated: a row whose x or z is missing emits no marker and does not
\* keep the other rows from emitting theirs: get_playermarkers returns
\* normally, with as many markers as there are aligned rows that have both
\* horizontal coordinates.
C7_MissingCoordinateSkipsRow ==
    (/\ gpc.at \in {"returned", "raised"}
     /\ \A k \in DOMAIN gfetched : SoundButCoordinates(gfetched[k]))
        => /\ gpc.at = "returned"
           /\ Len(gmarkers) = CompleteRows(gfetched, Len(gfetched))

\* twice the value of a number
Halves(v) == IF v.t = "float" THEN v.n ELSE 2 * v.n

\* twice the block-centred value: an integral value v becomes v + 0.5
Centred(v) == IF Halves(v) % 2 = 0 THEN Halves(v) + 1 ELSE Halves(v)

ExpectedPosition(r) ==
    LET y == r["values"][2]
    IN << Centred(r["values"][1]["effectiveValue"]["numberValue"]),
          IF HasNumber(y) THEN Halves(y["effectiveValue"]["numberValue"]) ELSE 0,
          Centred(r["values"][3]["effectiveValue"]["numberValue"]) >>

\* the rows of a fetch that emit a marker, in row order
RECURSIVE EmittingRows(_, _)
EmittingRows(data, i) ==
    IF i = 0 THEN <<>>
    ELSE EmittingRows(data, i - 1)
            \o (IF HasCoordinates(RowsOf(data.positions)[i])
                THEN <<RowsOf(data.positions)[i]>> ELSE <<>>)

RECURSIVE ExpectedPositions(_, _)
ExpectedPositions(fetched, k) ==
    IF k = 0 THEN <<>>
    ELSE LET rows == EmittingRows(fetched[k], Aligned(fetched[k]))
         IN ExpectedPositions(fetched, k - 1)
                \o [i \in DOMAIN rows |-> ExpectedPosition(rows[i])]

\* C8 as stated: the position of every emitted marker is its row's (x, y, z)
\* with an integral x and z moved by 0.5, a non-integral x and z unchanged,
\* and y as it is, 0 when absent: (10, 5, 20) gives (10.5, 5, 20.5).
C8_HorizontalAxesBlockCentred ==
    gpc.at = "returned" =>
        [i \in DOMAIN gmarkers |->
            [j \in DOMAIN gmarkers[i].position.items |->
                Halves(gmarkers[i].position.items[j])]]
            = ExpectedPositions(gfetched, Len(gfetched))

(***************************************************************************)
(* C9 and C10: the identity and the colour of a marker.                    *)
(***************************************************************************)
\* C9: two markers whose uuid was set by set_uuid_from_name under the same
\* non-empty name have the same uuid, and two markers whose colour was set
\* by set_color() under the same non-empty name have the same colour,
\* whatever their other fields and the uuid they had before.
C9_IdentityAndColourPureInName ==
    \A i, j \in DOMAIN pms :
        /\ (/\ pobs[i].uuid_by = "name" /\ pobs[j].uuid_by = "name"
            /\ Truthy(pobs[i].uuid_name)
            /\ PyIs(pobs[i].uuid_name, pobs[j].uuid_name))
                => pms[i].uuid = pms[j].uuid
        /\ (/\ pobs[i].color_by = "derived" /\ pobs[j].color_by = "derived"
            /\ Truthy(pobs[i].color_name)
            /\ PyIs(pobs[i].color_name, pobs[j].color_name))
                => pms[i].color = pms[j].color

\* two markers named Steve of different dimensions, one made with a uuid4
\* and one with the uuid Spawn derives, have both derived their uuid and
\* their colour: the uuid is the
\* md5 of "Steve" in uuid form, 81b8a1b7-7068-d06e-1c81-90825253066f
C9_Witness ==
    /\ Len(pms) = 2
    /\ \A i \in {1, 2} :
            /\ pms[i].name = PyStr("Steve")
            /\ pobs[i].uuid_by = "name" /\ pobs[i].uuid_name = PyStr("Steve")
            /\ pobs[i].color_by = "derived" /\ pobs[i].color_name = PyStr("Steve")
    /\ pobs[1].uuid_was = Uuid4A
    /\ pobs[2].uuid_was = UUIDStr(md5_text("Spawn"))
    /\ pms[1].dimensionId # pms[2].dimensionId
    /\ pms[1].uuid = << 8, 1, 11, 8, 10, 1, 11, 7, Dash, 7, 0, 6, 8, Dash, 13, 0, 6, 14, Dash,
                        1, 12, 8, 1, Dash, 9, 0, 8, 2, 5, 2, 5, 3, 0, 6, 6, 15 >>

RECURSIVE DigitSum(_, _)
DigitSum(h, i) == IF i = 0 THEN 0 ELSE DigitSum(h, i - 1) + h[i]

\* int(h, 16) mod 12 by its residues: 16 is 1 mod 3, so the number is its
\* digit sum mod 3, and it is its last digit mod 4
HashIndex(h) ==
    CHOOSE k \in 0..11 : k % 3 = DigitSum(h, Len(h)) % 3 /\ k % 4 = h[Len(h)] % 4

\* C10: after set_color(c) with an explicit c the colour is c; after
\* set_color() it is the palette entry at index (the hash as an integer)
\* mod 12, the hash being that of the name (of the uuid when the name is
\* empty), and so one of the 12 palette colours.
C10_ExplicitColourElsePaletteEntry ==
    /\ Len(DEFAULT_COLORS) = 12
    /\ \A i \in DOMAIN pms :
        /\ pobs[i].color_by = "explicit" => PyIs(pms[i].color, pobs[i].color_arg)
        /\ pobs[i].color_by = "derived" =>
            LET h == IF Truthy(pobs[i].color_name) THEN md5_text(pobs[i].color_name.s)
                     ELSE md5_chars(pobs[i].color_uuid)
            IN /\ pms[i].color = PyStr(DEFAULT_COLORS[HashIndex(h) + 1])
               /\ \E k \in 1..12 : pms[i].color.s = DEFAULT_COLORS[k]

\* a marker named Steve was given the explicit colour "" and has it, a
\* marker named Spawn derived its colour: entry 10 of the palette
C10_Witness ==
    \E i, j \in DOMAIN pms :
        /\ pms[i].name = PyStr("Steve")
        /\ pobs[i].color_by = "explicit" /\ pobs[i].color_arg = PyStr("")
        /\ pms[i].color = PyStr("")
        /\ pms[j].name = PyStr("Spawn")
        /\ pobs[j].color_by = "derived" /\ pobs[j].color_name = PyStr("Spawn")
        /\ pms[j].color = PyStr("#FF55FF")

(***************************************************************************)
(* C11: the rows beyond the shortest set.                                  *)
(***************************************************************************)
\* a set cut to its first n rows
Truncated(set, n) ==
    IF "rowData" \in DOMAIN set THEN [rowData |-> SubSeq(set["rowData"], 1, n)] ELSE set

\* a fetch cut to the rows its sets have in common
AlignedPart(data) == [key \in DOMAIN data |-> Truncated(data[key], Aligned(data))]

\* what the dimensions fetched so far give when every fetch is cut to its
\* aligned rows: the markers, or the exception of the first that raises
RECURSIVE AlignedOutcome(_, _)
AlignedOutcome(fetched, k) ==
    IF k = 0 THEN Returned(<<>>)
    ELSE LET before == AlignedOutcome(fetched, k - 1)
             this == DimensionMarkers(gimpl, gdims[k], AlignedPart(fetched[k]), Uuid4A)
         IN IF before.exc # "none" THEN before
            ELSE IF this.exc # "none" THEN this
            ELSE Returned(before.val \o this.val)

\* C11 as stated: only the rows below the least of the lengths of the name,
\* the position and (when there is one) the check set count; the rows beyond
\* it give no marker and no error, so the call does what it does on the
\* fetch cut to the aligned rows.
C11_RowsBeyondShortestIgnored ==
    LET cut == AlignedOutcome(gfetched, Len(gfetched))
    IN /\ gpc.at = "raised" => cut.exc = gerr
       /\ gpc.at # "raised" => (cut.exc = "none" /\ cut.val = gmarkers)

(***************************************************************************)
(* C12: the visibility of a marker.                                        *)
(***************************************************************************)
\* the indexes of the rows of a fetch that emit a marker, in row order
RECURSIVE EmittingIndexes(_, _)
EmittingIndexes(data, i) ==
    IF i = 0 THEN <<>>
    ELSE EmittingIndexes(data, i - 1)
            \o (IF HasCoordinates(RowsOf(data.positions)[i]) THEN <<i>> ELSE <<>>)

\* the visibility the claim gives row i of a fetch
ExpectedVisible(data, i) ==
    IF "checks" \notin DOMAIN data THEN TRUE
    ELSE LET o == RowsOf(data.checks)[i]
             cell == IF "values" \in DOMAIN o THEN o["values"][1] ELSE EmptyDict
             value == IF "effectiveValue" \in DOMAIN cell THEN cell["effectiveValue"] ELSE EmptyDict
             text == IF "formattedValue" \in DOMAIN cell THEN cell["formattedValue"] ELSE ""
         IN IF "boolValue" \in DOMAIN value THEN value["boolValue"]
            ELSE text \notin {"", " "}

RECURSIVE ExpectedVisibles(_, _)
ExpectedVisibles(fetched, k) ==
    IF k = 0 THEN <<>>
    ELSE LET rows == EmittingIndexes(fetched[k], Aligned(fetched[k]))
         IN ExpectedVisibles(fetched, k - 1)
                \o [i \in DOMAIN rows |-> ExpectedVisible(fetched[k], rows[i])]

\* every set of the fetch has its rowData and every position row that has
\* cells has its three cells, the x and the z with a number
PositionsReadable(data) ==
    /\ \A key \in DOMAIN data : "rowData" \in DOMAIN data[key]
    /\ \A i \in DOMAIN RowsOf(data.positions) :
            "values" \in DOMAIN RowsOf(data.positions)[i]
                => HasCoordinates(RowsOf(data.positions)[i])

\* C12 as stated: a marker is visible when its dimension has no check set;
\* with one, its visibility is the boolean of the row's check cell when the
\* cell has one, and else whether the cell's text is non-empty once
\* stripped; a cell with neither gives False and no error.
C12_VisibilityFromCheckCell ==
    (\A k \in DOMAIN gfetched : PositionsReadable(gfetched[k])) =>
        /\ gpc.at # "raised"
        /\ [i \in DOMAIN gmarkers |-> gmarkers[i].visible]
                = ExpectedVisibles(gfetched, Len(gfetched))

(***************************************************************************)
(* C13: the order of the returned list.                                    *)
(***************************************************************************)
\* the name the claim gives row i of a fetch: the text of the name cell
ExpectedName(data, i) ==
    LET o == RowsOf(data.names)[i]
    IN IF "values" \in DOMAIN o /\ "formattedValue" \in DOMAIN o["values"][1]
       THEN PyStr(o["values"][1]["formattedValue"])
       ELSE PyStr("???")

\* (name, dimension id) of the markers of the first k dimensions: dimension
\* by dimension, and row by row within a dimension
RECURSIVE ExpectedOrder(_, _)
ExpectedOrder(fetched, k) ==
    IF k = 0 THEN <<>>
    ELSE LET rows == EmittingIndexes(fetched[k], Aligned(fetched[k]))
             id == IF "id" \in DOMAIN gdims[k] THEN gdims[k]["id"] ELSE 0
         IN ExpectedOrder(fetched, k - 1)
                \o [i \in DOMAIN rows |-> <<ExpectedName(fetched[k], rows[i]), id>>]

\* C13: the returned list is the markers of the dimensions in the order of
\* the dimensions mapping, each dimension's in row order, with nothing
\* dropped: a name that occurs in two dimensions gives two markers, each
\* with its own dimension id.
C13_DimensionThenRowOrder ==
    gpc.at = "returned" =>
        [i \in DOMAIN gmarkers |-> <<gmarkers[i].name, gmarkers[i].dimensionId>>]
            = ExpectedOrder(gfetched, Len(gfetched))

\* the call has returned four markers of two dimensions: Steve and Spawn of
\* dimension 0, then Steve and Spawn of dimension 1, the two Steves with
\* the same uuid
C13_Witness ==
    /\ gpc.at = "returned"
    /\ Len(gdims) = 2
    /\ Len(gmarkers) = 4
    /\ [i \in 1..4 |-> gmarkers[i].name.s] = <<"Steve", "Spawn", "Steve", "Spawn">>
    /\ [i \in 1..4 |-> gmarkers[i].dimensionId] = <<0, 0, 1, 1>>
    /\ gmarkers[1].uuid = gmarkers[3].uuid

(***************************************************************************)
(* C14: the renderer runs once per task, in order, one at a time.          *)
(***************************************************************************)
\* the renderer starts of definition k, in the order they were made
RendererStarts(k) == SelectSeq(effects, LAMBDA e : e.op = "papyrus" /\ e.defi = k)
RendererEvents == SelectSeq(effects, LAMBDA e : e.op \in {"papyrus", "papyrus exit"})

\* C14: the renderer starts of a configuration are those of its tasks 1, 2,
\* ... in list order, each once and with the task's command vector; a start
\* is made only when every earlier start has been followed by its exit; and
\* a run that is neither dry nor skipping the map and ends normally has
\* started the renderer for every task.
C14_RendererOncePerTaskNoOverlap ==
    /\ \A k \in 1..Len(defis) :
            LET starts == RendererStarts(k)
            IN \A i \in DOMAIN starts :
                    /\ starts[i].task = i
                    /\ i <= Len(defis[k].data["tasks"])
                    /\ starts[i].argv = string_commands(mfiles[k]).val[i]
    /\ \A i \in DOMAIN RendererEvents :
            IF i % 2 = 1 THEN RendererEvents[i].op = "papyrus"
            ELSE /\ RendererEvents[i].op = "papyrus exit"
                 /\ RendererEvents[i].defi = RendererEvents[i - 1].defi
                 /\ RendererEvents[i].task = RendererEvents[i - 1].task
    /\ mrunning <=> (Len(RendererEvents) % 2 = 1)
    /\ (mpc.at = "done" /\ ~margs.dry_run /\ ~SKIP_GEN(margs)) =>
            \A k \in 1..Len(defis) :
                Len(RendererStarts(k)) = Len(defis[k].data["tasks"])

\* the run has ended normally after the two tasks of a configuration: the
\* renderer was started for task 1, exited, was started for task 2, exited
C14_Witness ==
    /\ mpc.at = "done"
    /\ mfiles = <<WithKey(BaseDoc, "tasks", TwoTasks)>>
    /\ [i \in DOMAIN RendererEvents |-> <<RendererEvents[i].op, RendererEvents[i].task>>]
            = << <<"papyrus", 1>>, <<"papyrus exit", 1>>, <<"papyrus", 2>>, <<"papyrus exit", 2>> >>

(***************************************************************************)
(* C15: a non-zero exit status ends the processing; nothing is undone.     *)
(***************************************************************************)
\* a renderer or a transfer that has exited with a non-zero status is the
\* last external effect of the run, and the run has ended with its error
NonZeroExitIsLast ==
    \A i \in DOMAIN effects :
        effects[i].rc # 0 =>
            /\ effects[i].op \in {"papyrus exit", "upload"}
            /\ i = Len(effects)
            /\ ~mrunning
            /\ mpc.at = "failed"
            /\ merr = (IF effects[i].op = "papyrus exit" THEN "An error occured!"
                       ELSE "Rsync command failed")

\* a step keeps every external effect made so far
EffectsKept ==
    /\ Len(effects') >= Len(effects)
    /\ SubSeq(effects', 1, Len(effects)) = effects

\* C15: after a renderer or a remote transfer has exited with a non-zero
\* status no render task, marker write, upload or notification is started
\* (the exit stays the last external effect and the run has failed), and
\* the effects of the steps made before stay as they are.
C15_NonZeroExitStopsNoRollback == []NonZeroExitIsLast /\ [][EffectsKept]_vars

\* the first of two configurations has rendered its task and written its
\* markers, its upload has exited with status 1, and it has a webhook block
\* that is not skipped: the run has ended with the four effects made
C15_Witness ==
    /\ mpc = At("failed", 1, 0)
    /\ merr = "Rsync command failed"
    /\ Len(mfiles) = 2
    /\ "webhook" \in DOMAIN mfiles[1]
    /\ ~SKIP_WEBHOOK(margs)
    /\ [i \in DOMAIN effects |-> <<effects[i].op, effects[i].defi, effects[i].rc>>]
            = << <<"papyrus", 1, 0>>, <<"papyrus exit", 1, 0>>,
                 <<"write_playermarkers", 1, 0>>, <<"upload", 1, 1>> >>

(***************************************************************************)
(* C16: a Definition without tasks.                                        *)
(***************************************************************************)
\* the Definition k has an empty tasks list or no tasks key
NoTasks(k) == "tasks" \notin DOMAIN defis[k].data \/ defis[k].data["tasks"] = <<>>

\* the map generation step of a Definition without tasks warns and goes on
WarnsAndGoesOn ==
    /\ mpc' = At("sheet", mpc.k, 0)
    /\ mlog' = Append(mlog, "No tasks listed!")
    /\ merr' = merr
    /\ effects' = effects

\* C16: when the map generation of a Definition with an empty tasks list or
\* with no tasks key is processed (not skipped), no error is raised, no
\* renderer is started, the warning is logged and the run goes on to the
\* spreadsheet step of that Definition.
C16_NoTasksWarnsAndGoesOn ==
    [][(mpc.at = "gen" /\ ~SKIP_GEN(margs) /\ NoTasks(mpc.k)) => WarnsAndGoesOn]_vars

\* the same for the empty list alone, which the code does warn about
C16_EmptyTasksWarnsAndGoesOn ==
    [][(mpc.at = "gen" /\ ~SKIP_GEN(margs) /\ "tasks" \in DOMAIN defis[mpc.k].data
            /\ defis[mpc.k].data["tasks"] = <<>>) => WarnsAndGoesOn]_vars

(***************************************************************************)
(* C17: the order of the steps of a configuration.                         *)
(***************************************************************************)
\* the renderer's starts and exits of configuration k: task 1, task 2, ...
RenderSteps(k) ==
    IF SKIP_GEN(margs) \/ "tasks" \notin DOMAIN mfiles[k] THEN <<>>
    ELSE [i \in 1..(2 * Len(mfiles[k]["tasks"])) |->
            IF i % 2 = 1 THEN <<"papyrus", (i + 1) \div 2>> ELSE <<"papyrus exit", i \div 2>>]

\* the step op of the block cap of configuration k, when the block is there
\* and the step is not skipped by a flag
BlockStep(k, cap, op, skipped) ==
    IF ~skipped /\ cap \in DOMAIN mfiles[k] THEN << <<op, 0>> >> ELSE <<>>

ConfigurationSteps(k) ==
    RenderSteps(k)
        \o BlockStep(k, "spreadsheet", "write_playermarkers", SKIP_SPREADSHEET(margs))
        \o BlockStep(k, "remote", "upload", SKIP_REMOTE(margs))
        \o BlockStep(k, "webhook", "push", SKIP_WEBHOOK(margs))

RECURSIVE ExpectedRun(_)
ExpectedRun(k) == IF k = 0 THEN <<>> ELSE ExpectedRun(k - 1) \o ConfigurationSteps(k)

StepsMade == [i \in DOMAIN effects |-> <<effects[i].op, effects[i].task>>]

\* C17: the external effects of a run are, configuration after configuration,
\* the render tasks, then the marker write, then the upload, then the
\* notification, with exactly the steps of absent blocks (and of skip flags)
\* left out: at every moment the steps made are a prefix of that sequence,
\* and a run that ends normally has made all of it without error.
C17_StepsInFixedOrderAbsentSkipped ==
    LET expected == IF margs.dry_run THEN <<>> ELSE ExpectedRun(Len(mfiles))
    IN /\ Len(StepsMade) <= Len(expected)
       /\ SubSeq(expected, 1, Len(StepsMade)) = StepsMade
       /\ mpc.at = "done" => (StepsMade = expected /\ merr = "")

\* a configuration with a spreadsheet and a webhook block and no remote
\* block, run with no flag: the run has ended normally with the render, the
\* marker write and the notification made and no upload
C17_Witness ==
    /\ mpc.at = "done"
    /\ merr = ""
    /\ Len(mfiles) = 1
    /\ DOMAIN mfiles[1] = {"world", "dest", "tasks", "spreadsheet", "webhook"}
    /\ StepsMade = << <<"papyrus", 1>>, <<"papyrus exit", 1>>,
                      <<"write_playermarkers", 0>>, <<"push", 0>> >>

(***************************************************************************)
(* C18: iterable_to_options of what is neither a mapping nor a list.       *)
(***************************************************************************)
\* C18: iterable_to_options of an input that is neither a mapping nor a list
\* (None, a bool, a number, a bare string) raises TypeError and returns no
\* token list.
C18_ScalarRaisesTypeError ==
    (fret.op = "iterable_to_options" /\ fobj.kind = "scalar") =>
        fret.res.exc = "TypeError"

\* the same for the inputs that are not strings, which are not iterable
C18_NonIterableRaisesTypeError ==
    (fret.op = "iterable_to_options" /\ fobj.kind = "scalar" /\ fobj.items[1].t # "str") =>
        fret.res.exc = "TypeError"

(***************************************************************************)
(* C19: the three capabilities have tables of their own.                   *)
(***************************************************************************)
\* a step changes what at most one capability finds registered
OneTableChanges ==
    \A c \in Caps :
        Registered(Heap, c)' # Registered(Heap, c) =>
            \A c2 \in Caps \ {c} : Registered(Heap, c2)' = Registered(Heap, c2)

\* the access of a block whose tag the capability's table does not have has
\* raised 'Cannot find type', whatever the other tables have
ForeignTagNotFound ==
    \A cap \in Caps :
        (/\ rlast.op = cap
         /\ cap \in DOMAIN defis[rlast.d].data
         /\ defis[rlast.d].data[cap].type \notin Registered(Heap, cap))
            => rlast.res.exc = "Cannot find type"

\* C19: a registration changes the table of one capability and leaves what
\* the other two find registered as it was; and the access of a block whose
\* tag is registered only for another capability raises 'Cannot find type'.
C19_TablesIndependent == [][OneTableChanges]_vars /\ []ForeignTagNotFound

\* "gsheet" is registered for the spreadsheet and for nothing else, and the
\* access of a remote block of type "gsheet" has raised 'Cannot find type'
C19_Witness ==
    /\ "gsheet" \in Registered(Heap, "spreadsheet")
    /\ "gsheet" \notin Registered(Heap, "remote")
    /\ "gsheet" \notin Registered(Heap, "webhook")
    /\ rlast.op = "remote"
    /\ "remote" \in DOMAIN defis[rlast.d].data
    /\ defis[rlast.d].data["remote"].type = "gsheet"
    /\ rlast.res.exc = "Cannot find type"

(***************************************************************************)
(* C20: attribute style and subscript style on a DictObject.               *)
(***************************************************************************)
\* the last access has set key k to v, in one of the two styles
LastSet == olast.op \in {"setattr", "setitem"}
\* the last access has deleted a key the backing store had, in one of the
\* two styles
LastDeleted == olast.op \in {"delattr", "delitem"} /\ olast.key \in DOMAIN olast.before.data

\* after the set the backing store maps the key to the value, the two styles
\* give the same object, and the subscript read returns the value
SetInBothStyles ==
    /\ olast.res.exc = "none"
    /\ DictObject__setattr__(olast.before, olast.key, olast.val)
            = DictObject__setitem__(olast.before, olast.key, olast.val)
    /\ olast.key \in DOMAIN odata
    /\ odata[olast.key] = olast.val
    /\ DictObject__getitem__(Obj, olast.key).res = Returned(<<olast.val>>)

\* after the deletion the key is gone from the backing store, and the two
\* styles give the same object
DeletedInBothStyles ==
    /\ olast.res.exc = "none"
    /\ DictObject__delattr__(olast.before, olast.key)
            = DictObject__delitem__(olast.before, olast.key)
    /\ olast.key \notin DOMAIN odata

PlainKey(k) == IF k = "" THEN FALSE ELSE Head(k) # "_"

StepLines == {"  - papyruscs", "defi.spreadsheet", "defi.remote", "defi.webhook"}
LoggedSteps == SelectSeq(mlog, LAMBDA l : l \in StepLines)

\* the lines a dry run logs for configuration k
DryLines(k) ==
    (IF SKIP_GEN(margs) \/ "tasks" \notin DOMAIN mfiles[k] THEN <<>>
     ELSE [i \in 1..Len(mfiles[k]["tasks"]) |-> "  - papyruscs"])
        \o (IF ~SKIP_SPREADSHEET(margs) /\ "spreadsheet" \in DOMAIN mfiles[k]
            THEN <<"defi.spreadsheet">> ELSE <<>>)
        \o (IF ~SKIP_REMOTE(margs) /\ "remote" \in DOMAIN mfiles[k]
            THEN <<"defi.remote">> ELSE <<>>)
        \o (IF ~SKIP_WEBHOOK(margs) /\ "webhook" \in DOMAIN mfiles[k]
            THEN <<"defi.webhook">> ELSE <<>>)

RECURSIVE DryLog(_)
DryLog(k) == IF k = 0 THEN <<>> ELSE DryLog(k - 1) \o DryLines(k)

\* C21: in a run with --dry-run, whatever the files and the skip flags, no
\* external effect is made (no renderer is started, no marker file written,
\* no upload run, no webhook pushed, and no renderer is running); the steps
\* are logged: the lines logged are a prefix of the lines of the steps of
\* the configurations, and all of them when the run ends normally.
C21_DryRunNoExternalEffect ==
    margs.dry_run =>
        /\ effects = <<>>
        /\ ~mrunning
        /\ Len(LoggedSteps) <= Len(DryLog(Len(mfiles)))
        /\ SubSeq(DryLog(Len(mfiles)), 1, Len(LoggedSteps)) = LoggedSteps
        /\ mpc.at = "done" => LoggedSteps = DryLog(Len(mfiles))

\* a dry run with no skip flag over a configuration with one task and the
\* three blocks has ended normally: the four steps are logged, none is made
C21_Witness ==
    /\ margs = [NoArgs EXCEPT !.dry_run = TRUE]
    /\ mpc.at = "done"
    /\ Len(mfiles) = 1
    /\ DOMAIN mfiles[1] = {"world", "dest", "tasks", "spreadsheet", "remote", "webhook"}
    /\ LoggedSteps = <<"  - papyruscs", "defi.spreadsheet", "defi.remote", "defi.webhook">>
    /\ effects = <<>>

(***************************************************************************)
(* C22: a fatal error ends the whole run.                                  *)
(***************************************************************************)
\* once an exception has been raised the run has ended at the configuration
\* it was at, and the steps made are steps of the configurations up to it
EndedWhereItFailed ==
    merr # "" =>
        /\ mpc.at = "failed"
        /\ ~mrunning
        /\ Len(StepsMade) <= Len(ExpectedRun(mpc.k))
        /\ SubSeq(ExpectedRun(mpc.k), 1, Len(StepsMade)) = StepsMade

\* C22: an exception raised in a step of configuration k (a renderer or a
\* transfer exiting non-zero, a failed marker write or notification) ends
\* the run: the run is failed at k with only steps of the configurations up
\* to k made, and no step at all is taken after the exception.
C22_FatalErrorEndsWholeRun == []EndedWhereItFailed /\ [][merr = ""]_vars

\* the notification of the first of two configurations has failed after its
\* render, marker write and upload; the second configuration has a task,
\* which is never started
C22_Witness ==
    /\ mpc = At("failed", 1, 0)
    /\ merr = "HTTPError"
    /\ margs = NoArgs
    /\ Len(mfiles) = 2
    /\ "tasks" \in DOMAIN mfiles[2]
    /\ mfiles[2]["tasks"] # <<>>
    /\ [i \in DOMAIN effects |-> <<effects[i].op, effects[i].defi>>]
            = << <<"papyrus", 1>>, <<"papyrus exit", 1>>, <<"write_playermarkers", 1>>,
                 <<"upload", 1>>, <<"push", 1>> >>

====
